---- MODULE Spec2Model ----
(***************************************************************************)
(* Booking provider orchestration engine of travel-ai.                     *)
(*                                                                         *)
(* bookingAgentConfirm (src/lib/agents/bookingAgent.ts) drives a booking   *)
(* request through the Amadeus transport (src/lib/services/amadeus.ts):    *)
(* getAccessToken, amadeusFetch, priceAmadeusFlightOffer,                  *)
(* createAmadeusFlightOrder and bookAmadeusHotelOffer.  One step of the    *)
(* model is the code that runs between two awaits.                         *)
(*                                                                         *)
(* Provider JSON is untyped at run time: a field of an error entry is      *)
(* absent, a string, or a value that is not a string.  Strings are kept    *)
(* as tokens; the predicates below say which tokens contain the            *)
(* substrings the code looks for.                                          *)
(***************************************************************************)
EXTENDS Integers, Sequences, FiniteSets, TLC

\* ------------------------------------------------------------------ bounds
MaxTravelers == 2      \* longest traveler list of a request
MaxPricings == 2       \* most travelerPricings of a flight offer
MaxPointerIndex == 2   \* largest traveler index of an error source pointer
MaxRetryAfter == 2     \* largest Retry-After header value, in seconds
MaxNow == 2            \* last instant of the clock, in ticks of 60 s

\* ------------------------------------------------------- program constants
MAX_FLIGHT_ORDER_ATTEMPTS == 3
MAX_HOTEL_ORDER_ATTEMPTS == 3
MAX_AMADEUS_RETRY_ATTEMPTS == 3
RATE_LIMIT_BASE_DELAY_MS == 500
RATE_LIMIT_MAX_DELAY_MS == 8000

\* ------------------------------------------------------------ JSON values
Absent == -1           \* a property that is missing (undefined)
NoOffer == -2          \* the offer object itself is missing
ABSENT == "ABSENT"     \* a missing string property
NONSTRING == "NONSTRING"  \* a truthy JSON value that is not a string

Max(a, b) == IF a >= b THEN a ELSE b
Min(a, b) == IF a <= b THEN a ELSE b

\* Source pointers of an error entry: Absent, a pointer to another part of
\* the request, "/data/travelers" without an index, or k for
\* "/data/travelers[k]".
PtrOther == -2
PtrTravelers == -3

Entry(c, t, d, p) == [code |-> c, title |-> t, detail |-> d, pointer |-> p]

\* errors[0] of an error without entries (undefined); an entry object
\* without any field behaves the same in every reader below.
NoEntry == Entry(ABSENT, ABSENT, ABSENT, Absent)

\* The error entries the provider answers with.
ErrorEntries ==
  { NoEntry,
    Entry("141", "SYSTEM ERROR", "detail text", Absent),
    Entry("34651", "SEGMENT SELL FAILURE", "detail text", Absent),
    Entry("34651", ABSENT, ABSENT, Absent),
    Entry("034651", ABSENT, "detail text", Absent),
    Entry("141", "SEGMENT SELL FAILURE", ABSENT, Absent),
    Entry("34651", "SEGMENT SELL FAILURE", "detail text", 1),
    Entry("34651", "SEGMENT SELL FAILURE", NONSTRING, Absent),
    Entry("4926", "INVALID DATA RECEIVED", "detail text", Absent),
    Entry("4925", "INVALID DATA RECEIVED", "detail text", Absent),
    Entry("141", "INVALID DATA RECEIVED", "traveler not priced", Absent),
    Entry("141", "INVALID DATA RECEIVED", "detail text", PtrOther),
    Entry("141", "INVALID DATA RECEIVED", "detail text", PtrTravelers),
    Entry("21503", "INVALID NUMBER OF GUESTS", ABSENT, Absent),
    Entry("141", "INVALID DATA RECEIVED", "invalid number of guests", Absent),
    Entry("141", ABSENT, NONSTRING, Absent),
    Entry("141", NONSTRING, ABSENT, Absent),
    Entry("141", "Segment Sell Failure", ABSENT, Absent) }
  \cup { Entry("141", "INVALID DATA RECEIVED", "detail text", k) :
           k \in 0..MaxPointerIndex }

\* value.toLowerCase().includes("not priced")
IncludesNotPriced(s) == s = "traveler not priced"

\* value.toLowerCase().includes("invalid number of guests")
IncludesInvalidGuests(s) ==
  s \in {"invalid number of guests", "INVALID NUMBER OF GUESTS"}

\* value.toUpperCase()
ToUpperCase(s) ==
  CASE s = "Segment Sell Failure" -> "SEGMENT SELL FAILURE"
    [] s = "ab12" -> "AB12"
    [] s = "itin9" -> "ITIN9"
    [] OTHER -> s

\* Number.parseInt(code, 10) === 34651
ParsesTo34651(code) == code \in {"34651", "034651"}

\* a || b on optional strings
OrElse(a, b) == IF a # ABSENT THEN a ELSE b

\* --------------------------------------------------------------- messages
Msg(k, t, s, r) == [kind |-> k, text |-> t, supported |-> s, requested |-> r]
Undefined == Msg("undefined", "", 0, 0)
Text(t) == Msg("text", t, 0, 0)

\* AmadeusTravelPartyMismatchError: its message names both counts.
MismatchMessage(context, supported, requested) ==
  Msg("mismatch", context, supported, requested)

\* ----------------------------------------------------------------- errors
\* Thrown values: an AmadeusApiError ("api"), an
\* AmadeusTravelPartyMismatchError ("mismatch") or any other Error.
\* A variant that looks at the provider auth codes before the status.
determineAmadeusCategoryCodeFirst(status, code) ==
  IF status = 401 \/ status = 403 \/ code = "4926" \/ code = "4925" THEN "auth"
  ELSE IF status = 429 THEN "rate_limit"
  ELSE IF status >= 500 THEN "server"
  ELSE "validation"

determineAmadeusCategory(status, code) ==
  IF status = 401 \/ status = 403 THEN "auth"
  ELSE IF status = 429 THEN "rate_limit"
  ELSE IF status >= 500 THEN "server"
  ELSE IF code = "4926" \/ code = "4925" THEN "auth"
  ELSE "validation"

AmadeusApiError(status, errors) ==
  LET primary == IF errors = <<>> THEN NoEntry ELSE errors[1]
  IN [type |-> "api", status |-> status,
      category |-> determineAmadeusCategory(status, primary.code),
      primaryError |-> primary,
      message |-> Text(IF OrElse(primary.detail, primary.title) # ABSENT
                       THEN OrElse(primary.detail, primary.title)
                       ELSE "Amadeus request failed")]

PlainError(text) ==
  [type |-> "error", status |-> 0, category |-> "none",
   primaryError |-> NoEntry, message |-> Text(text)]

AmadeusTravelPartyMismatchError(context, supported, requested) ==
  [type |-> "mismatch", status |-> 0, category |-> "none",
   primaryError |-> NoEntry,
   message |-> MismatchMessage(context, supported, requested)]

\* A TypeError raised by calling a string method on a value that is not a
\* string.
TypeErrorValue == PlainError("TypeError: not a function")

\* AmadeusApiError.userMessage
userMessage(error) ==
  LET detail == OrElse(error.primaryError.detail, error.primaryError.title)
  IN IF detail # ABSENT THEN detail
     ELSE CASE error.category = "auth" -> "Unable to authenticate with Amadeus"
            [] error.category = "rate_limit" -> "Amadeus rate limit reached"
            [] error.category = "server" -> "Amadeus is currently unavailable"
            [] OTHER -> "Amadeus could not complete the request"

\* isTravelerNotPricedError calls toLowerCase on detail || title.
isTravelerNotPricedErrorThrows(error) ==
  OrElse(error.primaryError.detail, error.primaryError.title) = NONSTRING

isTravelerNotPricedError(error) ==
  LET primary == error.primaryError
  IN \/ IncludesNotPriced(OrElse(primary.detail, primary.title))
     \/ primary.code = "4926"
     \/ primary.pointer >= 0
     \/ primary.pointer = PtrTravelers

\* pricedTravelerCountFromError: the index of "travelers[k]" in the pointer.
pricedTravelerCountFromError(error) ==
  IF error.primaryError.pointer >= 0
  THEN Max(0, error.primaryError.pointer)
  ELSE Absent

\* extractTravelerPricingCount: the length of travelerPricings, if an array.
extractTravelerPricingCount(offer) ==
  IF offer = NoOffer THEN Absent ELSE offer

\* a ?? b on optional numbers
Coalesce(a, b) == IF a # Absent THEN a ELSE b

isSegmentSellFailure(error) ==
  LET primary == error.primaryError
  IN \/ primary.code = "34651"
     \/ (primary.code # ABSENT /\ ParsesTo34651(primary.code))
     \/ primary.title = "SEGMENT SELL FAILURE"

\* isInvalidHotelGuestError calls toLowerCase on detail || title unless the
\* code already decides.
isInvalidHotelGuestErrorThrows(error) ==
  /\ error.primaryError.code # "21503"
  /\ OrElse(error.primaryError.detail, error.primaryError.title) = NONSTRING

isInvalidHotelGuestError(error) ==
  LET primary == error.primaryError
  IN \/ primary.code = "21503"
     \/ IncludesInvalidGuests(OrElse(primary.detail, primary.title))

\* extractAmadeusMessage calls toUpperCase on the primary title.
extractAmadeusMessageThrows(error) ==
  error.type = "api" /\ error.primaryError.title = NONSTRING

extractAmadeusMessage(error) ==
  IF error.type = "api"
  THEN IF \/ error.primaryError.code = "34651"
          \/ ToUpperCase(error.primaryError.title) = "SEGMENT SELL FAILURE"
       THEN Text("The airline could not confirm seats")
       ELSE Text(userMessage(error))
  ELSE error.message

\* The hotel offer's raw payload: guests.adults, room.typeEstimated.beds and
\* the nested offers, each of the same shape.
Raw(a, b, n) == [adults |-> a, beds |-> b, offers |-> n]

RECURSIVE inferHotelGuestCapacityFromOffer(_)
inferHotelGuestCapacityFromOffer(offer) ==
  IF offer = <<>> THEN Absent
  ELSE LET raw == offer[1]
       IN IF raw.adults > 0 THEN raw.adults
          ELSE IF raw.beds > 0 THEN raw.beds
          ELSE inferHotelGuestCapacityFromOffer(raw.offers)

\* ------------------------------------------------------------------- state
VARIABLES
  payload,      \* the BookingConfirmationPayload of the call
  configured,   \* AMADEUS_CLIENT_ID && AMADEUS_CLIENT_SECRET
  tokenCache,   \* the module-level token cache: token (0 = "") and expiresAt
  now,          \* Date.now(), in ticks of 60 s
  frame,        \* the locals of the running bookingAgentConfirm call
  result,       \* the returned BookingResponse, once the call has returned
  previous,     \* what an earlier call with the same payload returned
  db,           \* the Booking, BookingRetry and BookingStatusEvent tables
  route,        \* the booking route's POST handler for the current request
  requests,     \* the locals of amadeusFetch calls that run side by side
  search,       \* the locals and the trace of the running runTravelSearch
  store         \* the search store of the client and its submits in flight

vars ==
  <<payload, configured, tokenCache, now, frame, result, previous, db, route,
    requests, search, store>>

\* expires_in of an issued token, in ticks of 60 s
ExpiresInTicks == {4}

\* access tokens the provider issues
AccessTokens == {1}

EmptyCache == [token |-> 0, expiresAt |-> 0]

HotelRaws ==
  { <<>>,
    <<Raw(0, 1, <<>>)>>,
    <<Raw(Absent, Absent, <<Raw(Absent, 0, <<>>), Raw(3, Absent, <<>>)>>)>> }

NoHotel == [offerId |-> ABSENT, raw |-> <<>>]

\* The itinerary of a request: itineraryId by its segments between "-",
\* chargedAmount in cents, and the flight and stay summaries.
Itineraries ==
  { [itineraryId |-> <<"trip", "ab12">>, chargedAmount |-> 120000,
     flight |-> "SYD-NRT", stay |-> "Park Hotel"],
    [itineraryId |-> <<"itin9">>, chargedAmount |-> 45000,
     flight |-> "MEL-AKL", stay |-> "Harbour Inn"] }

\* travelers: the length of the list; amadeusFlightOffer: the length of its
\* travelerPricings.
Payloads ==
  { [ travelers |-> t, amadeusFlightOffer |-> o, amadeusHotelOffer |-> h,
      itineraryId |-> i.itineraryId, chargedAmount |-> i.chargedAmount,
      flight |-> i.flight, stay |-> i.stay ] :
      t \in {Absent} \cup (0..MaxTravelers),
      o \in {NoOffer, Absent} \cup (0..MaxPricings),
      h \in {NoHotel} \cup [offerId : {"OFFER1"}, raw : HotelRaws],
      i \in Itineraries }

\* Math.random().toString(36).slice(2, 6).toUpperCase()
RandomTokens == {"K3X9", "0QZ7"}

NoConfirmationNumber == [prefix |-> ABSENT, token |-> ABSENT]

NoResult ==
  [ returned |-> FALSE,
    confirmationNumber |-> NoConfirmationNumber,
    status |-> "none",
    itineraryId |-> <<>>,
    chargedAmount |-> 0,
    flight |-> ABSENT,
    stay |-> ABSENT,
    travelers |-> Absent,
    amadeusFlightOrderId |-> ABSENT,
    amadeusHotelReservationId |-> ABSENT,
    amadeusFlightOrder |-> ABSENT,
    amadeusHotelBooking |-> ABSENT,
    amadeusFlightOrderError |-> Undefined,
    amadeusHotelBookingError |-> Undefined ]

\* pc is the await bookingAgentConfirm is suspended at; op is the provider
\* function called last; strategy is the strategy of the last
\* attemptFlightBooking and attempt the attempt number of the last
\* attemptFlightBooking or attemptHotelBooking; fetchAttempt, tokNow and
\* bearer are the locals of amadeusFetch and getAccessToken; resentOn is the
\* status (401 or 429) whose branch of the calling amadeusFetch made the
\* running one, 0 in the first; delayMs is the backoffMs it is waiting for.
StartFrame ==
  [ pc |-> "start",
    amadeusAvailable |-> FALSE,
    status |-> "confirmed",
    flightOrderId |-> ABSENT,
    hotelReservationId |-> ABSENT,
    flightOrder |-> ABSENT,
    hotelBooking |-> ABSENT,
    amadeusFlightOrderError |-> Undefined,
    amadeusHotelBookingError |-> Undefined,
    strategy |-> "default",
    attempt |-> 0,
    op |-> "none",
    fetchAttempt |-> 0,
    resentOn |-> 0,
    delayMs |-> 0,
    tokNow |-> 0,
    bearer |-> 0,
    thrown |-> Undefined ]

\* The tables before any booking is stored. bookings and retries are keyed
\* by the confirmation number: Booking.confirmationNumber is unique and a row
\* keeps its id, so the row of a confirmation number stands for its id.
EmptyDb == [bookings |-> <<>>, retries |-> <<>>, events |-> <<>>]

\* No request is being handled by the booking route.
NoRoute == [pc |-> "none", calls |-> <<>>, response |-> ABSENT,
            reattempt |-> FALSE]

\* No amadeusFetch runs beside the booking: calls holds the locals of each
\* such call and issued the tokens the token endpoint has issued to them.
NoRequests == [calls |-> <<>>, issued |-> {}]

\* An agent of runTravelSearch that has not been started: pc is the await
\* its search is suspended at, source where its offers came from.
NoAgent == [pc |-> "pending", source |-> ABSENT]

\* runTravelSearch is not running.
NoSearch ==
  [pc |-> "none", dateValid |-> TRUE, trace |-> <<>>, flights |-> <<>>,
   hotels |-> <<>>, flightAgent |-> NoAgent, hotelAgent |-> NoAgent,
   itineraries |-> <<>>]

\* The search store as created, lines 26-31, with no submit in flight:
\* error ABSENT is undefined; submits holds, for each call of submit, its
\* query and the await it is suspended at.
IdleStore ==
  [phase |-> "idle", query |-> "", isSubmitting |-> FALSE,
   itineraries |-> <<>>, trace |-> <<>>, error |-> ABSENT,
   submits |-> <<>>]

Init ==
  /\ payload \in Payloads
  /\ configured \in BOOLEAN
  /\ tokenCache = EmptyCache
  /\ now = 0
  /\ frame = StartFrame
  /\ result = NoResult
  /\ previous = NoResult
  /\ db = EmptyDb
  /\ route = NoRoute
  /\ requests = NoRequests
  /\ search = NoSearch
  /\ store = IdleStore

\* A variant that takes the provider as configured whatever the environment.
isAmadeusConfiguredAlways == TRUE

isAmadeusConfigured == configured

\* A variant of line 22 that rejects a missing traveler list only.
HasNoTravelersIfAbsent(p) == p.travelers = Absent

\* Line 22: !payload.travelers?.length
HasNoTravelers(p) == p.travelers = Absent \/ p.travelers = 0

\* An error leaves bookingAgentConfirm.
Throw(f, error) == [f EXCEPT !.pc = "thrown", !.thrown = error.message]

\* amadeusFetch entered with attempt = 1: getAccessToken comes first.
EnterFetch(f, op) ==
  [f EXCEPT !.op = op, !.fetchAttempt = 1, !.resentOn = 0, !.pc = "token"]

\* amadeusFetch has ended: its locals are gone.
LeaveFetch(f) ==
  [f EXCEPT !.fetchAttempt = 0, !.resentOn = 0, !.tokNow = 0, !.bearer = 0]

\* The legs are over: lines 306-318 run up to the return.
Finish(f) == [f EXCEPT !.pc = "finish"]

\* attemptHotelBooking(attempt): bookAmadeusHotelOffer is called.
StartHotelAttempt(f, attempt) ==
  EnterFetch([f EXCEPT !.attempt = attempt], "hotel")

\* A variant of line 200 that looks at the hotel offer id only.
AfterFlightLegWithOfferOnly(f) ==
  IF payload.amadeusHotelOffer.offerId # ABSENT
  THEN StartHotelAttempt(f, 1)
  ELSE Finish(f)

\* Line 200: the hotel leg runs if the provider is still available and the
\* request carries a hotel offer id.
AfterFlightLeg(f) ==
  IF f.amadeusAvailable /\ payload.amadeusHotelOffer.offerId # ABSENT
  THEN StartHotelAttempt(f, 1)
  ELSE Finish(f)

\* attemptFlightBooking(strategy, attempt): priceAmadeusFlightOffer is called.
StartFlightAttempt(f, strategy, attempt) ==
  EnterFetch([f EXCEPT !.strategy = strategy, !.attempt = attempt], "price")

\* A variant of lines 169-195 that disables the provider on every failure.
FlightUnhandledDisabling(f, failure) ==
  IF extractAmadeusMessageThrows(failure) THEN Throw(f, TypeErrorValue)
  ELSE AfterFlightLeg(
    [f EXCEPT
       !.amadeusFlightOrderError = extractAmadeusMessage(failure),
       !.status = "pending",
       !.amadeusAvailable = FALSE])

\* Lines 169-195: the failure was not handled.
FlightUnhandled(f, failure) ==
  IF extractAmadeusMessageThrows(failure) THEN Throw(f, TypeErrorValue)
  ELSE AfterFlightLeg(
    [f EXCEPT
       !.amadeusFlightOrderError = extractAmadeusMessage(failure),
       !.status = "pending",
       !.amadeusAvailable =
          IF failure.type = "api" /\ failure.category \in {"auth", "server"}
          THEN FALSE ELSE @])

\* Lines 108-134: a provider error about unpriced travelers becomes a
\* traveler-party mismatch.
FlightTravelerNotPriced(f, error) ==
  LET requestedCount == Max(1, payload.travelers)
      supportedCount ==
        Max(1, Coalesce(pricedTravelerCountFromError(error),
                 Coalesce(extractTravelerPricingCount(payload.amadeusFlightOffer),
                          requestedCount - 1)))
  IN AfterFlightLeg(
       [f EXCEPT
          !.amadeusFlightOrderError =
             MismatchMessage("flight", supportedCount, requestedCount),
          !.status = "pending",
          !.amadeusAvailable = FALSE])

\* A variant of the catch that looks for a segment sell failure before it
\* looks for unpriced travelers.
FlightCatchSegmentSellFirst(f, error) ==
  IF error.type = "mismatch"
  THEN AfterFlightLeg([f EXCEPT !.amadeusFlightOrderError = error.message,
                                !.status = "pending",
                                !.amadeusAvailable = FALSE])
  ELSE IF error.type = "api" /\ isSegmentSellFailure(error)
  THEN StartFlightAttempt(f, "compatibility", 1)
  ELSE IF error.type = "api" /\ isTravelerNotPricedErrorThrows(error)
  THEN Throw(f, TypeErrorValue)
  ELSE IF error.type = "api" /\ isTravelerNotPricedError(error)
  THEN FlightTravelerNotPriced(f, error)
  ELSE FlightUnhandled(f, error)

\* Lines 92-197: the catch of the flight leg around the default attempt.
FlightCatch(f, error) ==
  IF error.type = "mismatch"
  THEN AfterFlightLeg([f EXCEPT !.amadeusFlightOrderError = error.message,
                                !.status = "pending",
                                !.amadeusAvailable = FALSE])
  ELSE IF error.type = "api" /\ isTravelerNotPricedErrorThrows(error)
  THEN Throw(f, TypeErrorValue)
  ELSE IF error.type = "api" /\ isTravelerNotPricedError(error)
  THEN FlightTravelerNotPriced(f, error)
  ELSE IF error.type = "api" /\ isSegmentSellFailure(error)
  THEN StartFlightAttempt(f, "compatibility", 1)
  ELSE FlightUnhandled(f, error)

\* An error leaves attemptFlightBooking: to the catch at line 92 from the
\* default attempt, to the catch at line 163 from the compatibility attempt.
FlightLegThrows(f, error) ==
  IF f.strategy = "default"
  THEN FlightCatch(f, error)
  ELSE FlightUnhandled(f, error)

\* Lines 58-80: the catch inside attemptFlightBooking.
FlightAttemptCatch(f, attemptError) ==
  IF /\ attemptError.type = "api"
     /\ attemptError.category = "server"
     /\ f.attempt < MAX_FLIGHT_ORDER_ATTEMPTS
  THEN [f EXCEPT !.pc = "wait"]
  ELSE FlightLegThrows(f, attemptError)

\* A variant of the capacity check that accepts every priced offer.
ensureFlightTravelerCapacityNeverThrows(pricedOffer, travelers) == FALSE

\* ensureFlightTravelerCapacity: whether it throws, and the error it throws.
ensureFlightTravelerCapacityThrows(pricedOffer, travelers) ==
  /\ travelers > 0
  /\ extractTravelerPricingCount(pricedOffer) # Absent
  /\ travelers > extractTravelerPricingCount(pricedOffer)

ensureFlightTravelerCapacity(pricedOffer, travelers) ==
  AmadeusTravelPartyMismatchError(
    "flight", Max(1, extractTravelerPricingCount(pricedOffer)), travelers)

\* Lines 47-57: the pricing response arrived.
PriceReturned(f, pricing) ==
  IF pricing.offer = NoOffer
  THEN FlightAttemptCatch(f,
         PlainError("Amadeus pricing response missing flight offer"))
  ELSE IF ensureFlightTravelerCapacityThrows(pricing.offer, payload.travelers)
  THEN FlightAttemptCatch(f,
         ensureFlightTravelerCapacity(pricing.offer, payload.travelers))
  ELSE EnterFetch(f, "order")

\* A variant that downgrades the status when the compatibility retry
\* succeeds.
OrderReturnedDowngrading(f, order) ==
  IF order.id = ABSENT
  THEN FlightLegThrows(f, PlainError("Amadeus flight order creation failed"))
  ELSE AfterFlightLeg([f EXCEPT !.flightOrderId = order.id,
                                !.flightOrder = "order payload",
                                !.status = IF f.strategy = "compatibility"
                                           THEN "pending" ELSE @])

\* Lines 84-91 and 151-162: the order response arrived.
OrderReturned(f, order) ==
  IF order.id = ABSENT
  THEN FlightLegThrows(f, PlainError("Amadeus flight order creation failed"))
  ELSE AfterFlightLeg([f EXCEPT !.flightOrderId = order.id,
                                !.flightOrder = "order payload"])

\* A variant of lines 254-278 that leaves the status as it is.
HotelInvalidGuestsKeepingStatus(f) ==
  LET requestedCount == Max(1, payload.travelers)
      supportedCount ==
        Max(1, Coalesce(
                 inferHotelGuestCapacityFromOffer(payload.amadeusHotelOffer.raw),
                 requestedCount - 1))
  IN Finish([f EXCEPT
               !.amadeusHotelBookingError =
                  MismatchMessage("hotel", supportedCount, requestedCount),
               !.amadeusAvailable = FALSE])

\* Lines 254-278: an invalid-number-of-guests error becomes a mismatch.
HotelInvalidGuests(f) ==
  LET requestedCount == Max(1, payload.travelers)
      supportedCount ==
        Max(1, Coalesce(
                 inferHotelGuestCapacityFromOffer(payload.amadeusHotelOffer.raw),
                 requestedCount - 1))
  IN Finish([f EXCEPT
               !.amadeusHotelBookingError =
                  MismatchMessage("hotel", supportedCount, requestedCount),
               !.status = "pending",
               !.amadeusAvailable = FALSE])

\* Lines 242-303: the catch of the hotel leg.
HotelCatch(f, error) ==
  IF error.type = "mismatch"
  THEN Finish([f EXCEPT !.amadeusHotelBookingError = error.message,
                        !.status = "pending",
                        !.amadeusAvailable = FALSE])
  ELSE IF error.type = "api" /\ isInvalidHotelGuestErrorThrows(error)
  THEN Throw(f, TypeErrorValue)
  ELSE IF error.type = "api" /\ isInvalidHotelGuestError(error)
  THEN HotelInvalidGuests(f)
  ELSE IF extractAmadeusMessageThrows(error)
  THEN Throw(f, TypeErrorValue)
  ELSE Finish([f EXCEPT
                 !.amadeusHotelBookingError = extractAmadeusMessage(error),
                 !.status = "pending",
                 !.amadeusAvailable =
                    IF error.type = "api" /\ error.category \in {"auth", "server"}
                    THEN FALSE ELSE @])

\* Lines 210-229: the catch inside attemptHotelBooking.
HotelAttemptCatch(f, handlerError) ==
  IF /\ handlerError.type = "api"
     /\ handlerError.category = "server"
     /\ f.attempt < MAX_HOTEL_ORDER_ATTEMPTS
  THEN [f EXCEPT !.pc = "wait"]
  ELSE HotelCatch(f, handlerError)

\* A variant that always takes the provider's internal id.
HotelReservationIdInternal(booking) == booking.id

\* Lines 239-240: providerConfirmationId ?? id
HotelReservationIdFrom(booking) ==
  OrElse(booking.providerConfirmationId, booking.id)

\* A variant that takes a booking response without an id as a success.
HotelReturnedUnchecked(f, booking) ==
  Finish([f EXCEPT
            !.hotelReservationId =
               OrElse(booking.providerConfirmationId, booking.id),
            !.hotelBooking = "booking payload"])

\* Lines 233-241: the hotel booking response arrived.
HotelReturned(f, booking) ==
  IF booking.id = ABSENT
  THEN HotelCatch(f, PlainError("Amadeus hotel booking failed"))
  ELSE Finish([f EXCEPT
                 !.hotelReservationId = HotelReservationIdFrom(booking),
                 !.hotelBooking = "booking payload"])

\* amadeusFetch returned a decoded 2xx payload to the provider function,
\* which hands it to its caller.
FetchReturns(f, body) ==
  CASE f.op = "price" -> PriceReturned(LeaveFetch(f), body)
    [] f.op = "order" -> OrderReturned(LeaveFetch(f), body)
    [] f.op = "hotel" -> HotelReturned(LeaveFetch(f), body)

\* amadeusFetch threw: the error reaches the catch of the running attempt.
FetchThrows(f, error) ==
  IF f.op = "hotel"
  THEN HotelAttemptCatch(LeaveFetch(f), error)
  ELSE FlightAttemptCatch(LeaveFetch(f), error)

\* ------------------------------------------------------ provider responses
Json(offer, id, pcid, errors) ==
  [kind |-> "json", offer |-> offer, id |-> id,
   providerConfirmationId |-> pcid, errors |-> errors]

EmptyBody == [Json(NoOffer, ABSENT, ABSENT, <<>>) EXCEPT !.kind = "empty"]
NotJsonBody == [Json(NoOffer, ABSENT, ABSENT, <<>>) EXCEPT !.kind = "notjson"]

\* 2xx bodies by endpoint
OkBodies(op) ==
  {EmptyBody, NotJsonBody} \cup
  CASE op = "price" ->
         { Json(o, ABSENT, ABSENT, <<>>) :
             o \in {NoOffer, Absent} \cup (0..MaxPricings) }
    [] op = "order" ->
         { Json(NoOffer, i, ABSENT, <<>>) : i \in {ABSENT, "ORDER1"} }
    [] op = "hotel" ->
         { Json(NoOffer, i, c, <<>>) :
             i \in {ABSENT, "HOTEL1"}, c \in {ABSENT, "PCONF1"} }

\* non-2xx bodies
ErrorBodies ==
  {EmptyBody, NotJsonBody, Json(NoOffer, ABSENT, ABSENT, <<>>)} \cup
  { Json(NoOffer, ABSENT, ABSENT, <<e>>) : e \in ErrorEntries }

ErrorStatuses == {400, 401, 403, 429, 500}

\* The Retry-After header of a response: Absent, or its value in seconds.
\* The header comes with the 429 responses of an otherwise empty error body.
Responses(op) ==
  [status : {200}, body : OkBodies(op), retryAfter : {Absent}] \cup
  [status : ErrorStatuses, body : ErrorBodies, retryAfter : {Absent}] \cup
  [status : {429}, body : {Json(NoOffer, ABSENT, ABSENT, <<>>)},
   retryAfter : 0..MaxRetryAfter]

\* buildAmadeusError: the error that ends a request; reading .errors of an
\* undefined payload is a TypeError.
buildAmadeusError(response) ==
  IF response.body.kind # "json"
  THEN PlainError("TypeError: cannot read properties of undefined")
  ELSE AmadeusApiError(response.status, response.body.errors)

\* token endpoint responses: ok, access_token (0 = missing), expires_in
TokenResponses ==
  [ok : BOOLEAN, kind : {"json"}, accessToken : AccessTokens,
   expiresIn : ExpiresInTicks]
  \cup [ok : BOOLEAN, kind : {"json"}, accessToken : {0}, expiresIn : {0}]
  \cup [ok : BOOLEAN, kind : {"notjson"}, accessToken : {0}, expiresIn : {0}]

\* ----------------------------------------------------------------- actions
\* bookingAgentConfirm is called: lines 22-37 and, without a flight offer,
\* line 200.
Confirm ==
  /\ frame.pc = "start"
  /\ frame' =
       IF HasNoTravelers(payload)
       THEN Throw(frame,
              PlainError("Traveller details are required to finalize booking."))
       ELSE IF isAmadeusConfigured /\ payload.amadeusFlightOffer # NoOffer
       THEN StartFlightAttempt(
              [frame EXCEPT !.amadeusAvailable = isAmadeusConfigured],
              "default", 1)
       ELSE AfterFlightLeg(
              [frame EXCEPT !.amadeusAvailable = isAmadeusConfigured])
  /\ UNCHANGED <<payload, configured, tokenCache, now, result, previous,
                 db, route, requests, search,
                 store>>

\* A variant of getAccessToken that returns the cached token up to its
\* stored expiry, without the margin of 60 s.
GetAccessTokenWithoutMargin ==
  /\ frame.pc = "token"
  /\ frame' =
       IF tokenCache.token # 0 /\ tokenCache.expiresAt > now
       THEN [frame EXCEPT !.bearer = tokenCache.token, !.pc = "send"]
       ELSE [frame EXCEPT !.tokNow = now, !.pc = "exchange"]
  /\ UNCHANGED <<payload, configured, tokenCache, now, result, previous,
                 db, route, requests, search,
                 store>>

\* getAccessToken up to its await: the cached token is returned while
\* expiresAt > now + 60 s, else the token exchange is sent.
GetAccessToken ==
  /\ frame.pc = "token"
  /\ frame' =
       IF tokenCache.token # 0 /\ tokenCache.expiresAt > now + 1
       THEN [frame EXCEPT !.bearer = tokenCache.token, !.pc = "send"]
       ELSE [frame EXCEPT !.tokNow = now, !.pc = "exchange"]
  /\ UNCHANGED <<payload, configured, tokenCache, now, result, previous,
                 db, route, requests, search,
                 store>>

\* A variant of lines 406-410 that throws a provider error with the status
\* 401 when the exchange fails.
AfterTokenResponseAsAuthError(f, r) ==
  IF r.kind = "notjson"
  THEN FetchThrows(f, PlainError("SyntaxError: invalid JSON"))
  ELSE IF ~r.ok \/ r.accessToken = 0
  THEN FetchThrows(f, AmadeusApiError(401, <<>>))
  ELSE [f EXCEPT !.bearer = r.accessToken, !.tokNow = 0, !.pc = "send"]

\* getAccessToken after its await, lines 399-420, for one answer r of the
\* token endpoint: the frame it leaves.
AfterTokenResponse(f, r) ==
  IF r.kind = "notjson"
  THEN FetchThrows(f, PlainError("SyntaxError: invalid JSON"))
  ELSE IF ~r.ok \/ r.accessToken = 0
  THEN FetchThrows(f, PlainError("Failed to authenticate with Amadeus"))
  ELSE [f EXCEPT !.bearer = r.accessToken, !.tokNow = 0, !.pc = "send"]

\* A variant of lines 413-414 that keeps the later of the stored and the new
\* expiry.
CacheAfterTokenResponseLatestExpiry(cache, f, r) ==
  IF r.kind = "json" /\ r.ok /\ r.accessToken # 0
  THEN [token |-> r.accessToken,
        expiresAt |-> Max(cache.expiresAt, f.tokNow + (r.expiresIn - 1))]
  ELSE cache

\* Lines 412-414: the token cache after that answer.
CacheAfterTokenResponse(cache, f, r) ==
  IF r.kind = "json" /\ r.ok /\ r.accessToken # 0
  THEN [token |-> r.accessToken, expiresAt |-> f.tokNow + (r.expiresIn - 1)]
  ELSE cache

\* The token endpoint answered.
TokenExchange ==
  /\ frame.pc = "exchange"
  /\ \E r \in TokenResponses :
       /\ frame' = AfterTokenResponse(frame, r)
       /\ tokenCache' = CacheAfterTokenResponse(tokenCache, frame, r)
  /\ UNCHANGED <<payload, configured, now, result, previous,
                 db, route, requests, search,
                 store>>

\* A variant in which only a 429 counts against the attempts: a 401 is
\* always answered by sending the request again.
IsResentEvery401(f, response) ==
  \/ response.status = 401
  \/ /\ response.status = 429
     /\ f.fetchAttempt < MAX_AMADEUS_RETRY_ATTEMPTS

\* The response is a 401 or a 429 that amadeusFetch answers by sending the
\* request again.
IsResent(f, response) ==
  /\ response.status \in {401, 429}
  /\ f.fetchAttempt < MAX_AMADEUS_RETRY_ATTEMPTS

\* Lines 488-494: the delay before the request is sent again after a 429.
\* retryAfterSeconds is undefined without the header, and the conditional
\* takes the header's value only if it is truthy.
backoffMs(attempt, response) ==
  LET retryAfterSeconds == response.retryAfter
  IN IF retryAfterSeconds # Absent /\ retryAfterSeconds # 0
     THEN retryAfterSeconds * 1000
     ELSE Min(RATE_LIMIT_BASE_DELAY_MS * 2 ^ (attempt - 1),
              RATE_LIMIT_MAX_DELAY_MS)

\* amadeusFetch after its fetch, lines 468-510, for one response: the frame
\* it leaves.
AfterResponse(f, response) ==
  IF response.status = 200
  THEN IF response.body.kind # "json"
       THEN FetchThrows(f, PlainError("SyntaxError: invalid JSON"))
       ELSE FetchReturns(f, response.body)
  ELSE IF IsResent(f, response) /\ response.status = 401
  THEN [f EXCEPT !.fetchAttempt = @ + 1, !.resentOn = 401, !.bearer = 0,
                 !.pc = "token"]
  ELSE IF IsResent(f, response) /\ response.status = 429
  THEN [f EXCEPT !.resentOn = 429, !.bearer = 0, !.pc = "delay",
                 !.delayMs = backoffMs(f.fetchAttempt, response)]
  ELSE FetchThrows(f, buildAmadeusError(response))

\* A variant of the 401 branch that leaves the token cache as it is.
CacheAfterResponseKept(cache, f, response) == cache

\* Lines 476-477: a 401 that is retried clears the token cache.
CacheAfterResponse(cache, f, response) ==
  IF IsResent(f, response) /\ response.status = 401
  THEN EmptyCache
  ELSE cache

\* The provider answered the request that amadeusFetch sent.
Respond ==
  /\ frame.pc = "send"
  /\ \E response \in Responses(frame.op) :
       /\ frame' = AfterResponse(frame, response)
       /\ tokenCache' = CacheAfterResponse(tokenCache, frame, response)
  /\ UNCHANGED <<payload, configured, now, result, previous,
                 db, route, requests, search,
                 store>>

\* The rate-limit delay of amadeusFetch ended: the request is tried again.
Delay ==
  /\ frame.pc = "delay"
  /\ frame' = [frame EXCEPT !.fetchAttempt = @ + 1, !.delayMs = 0,
                             !.pc = "token"]
  /\ UNCHANGED <<payload, configured, tokenCache, now, result, previous,
                 db, route, requests, search,
                 store>>

\* A variant of the backoff that starts the same attempt again.
BackoffSameAttempt ==
  /\ frame.pc = "wait"
  /\ frame' =
       IF frame.op = "hotel"
       THEN StartHotelAttempt(frame, frame.attempt)
       ELSE StartFlightAttempt(frame, frame.strategy, frame.attempt)
  /\ UNCHANGED <<payload, configured, tokenCache, now, result, previous,
                 db, route, requests, search,
                 store>>

\* The backoff of attemptFlightBooking or attemptHotelBooking ended: the
\* next attempt starts.
Backoff ==
  /\ frame.pc = "wait"
  /\ frame' =
       IF frame.op = "hotel"
       THEN StartHotelAttempt(frame, frame.attempt + 1)
       ELSE StartFlightAttempt(frame, frame.strategy, frame.attempt + 1)
  /\ UNCHANGED <<payload, configured, tokenCache, now, result, previous,
                 db, route, requests, search,
                 store>>

\* A variant of the confirmation number that leaves the itinerary id out.
confirmationNumberWithoutItinerary(p, random) ==
  [prefix |-> "ITIN", token |-> random]

\* Lines 306-308: "CONF-", the last segment of the itinerary id in upper
\* case, "-" and a random token.
confirmationNumber(p, random) ==
  [prefix |-> ToUpperCase(p.itineraryId[Len(p.itineraryId)]),
   token |-> random]

\* A variant of the response that reports nothing charged.
BookingResponseWithoutCharge(f, p, random) ==
  [ returned |-> TRUE,
    confirmationNumber |-> confirmationNumber(p, random),
    status |-> f.status,
    itineraryId |-> p.itineraryId,
    chargedAmount |-> 0,
    flight |-> p.flight,
    stay |-> p.stay,
    travelers |-> p.travelers,
    amadeusFlightOrderId |-> f.flightOrderId,
    amadeusHotelReservationId |-> f.hotelReservationId,
    amadeusFlightOrder |-> f.flightOrder,
    amadeusHotelBooking |-> f.hotelBooking,
    amadeusFlightOrderError |-> f.amadeusFlightOrderError,
    amadeusHotelBookingError |-> f.amadeusHotelBookingError ]

\* Lines 319-339: the BookingResponse.
BookingResponse(f, p, random) ==
  [ returned |-> TRUE,
    confirmationNumber |-> confirmationNumber(p, random),
    status |-> f.status,
    itineraryId |-> p.itineraryId,
    chargedAmount |-> p.chargedAmount,
    flight |-> p.flight,
    stay |-> p.stay,
    travelers |-> p.travelers,
    amadeusFlightOrderId |-> f.flightOrderId,
    amadeusHotelReservationId |-> f.hotelReservationId,
    amadeusFlightOrder |-> f.flightOrder,
    amadeusHotelBooking |-> f.hotelBooking,
    amadeusFlightOrderError |-> f.amadeusFlightOrderError,
    amadeusHotelBookingError |-> f.amadeusHotelBookingError ]

\* Lines 306-339: the BookingResponse is returned.
Return ==
  /\ frame.pc = "finish"
  /\ frame' = [frame EXCEPT !.pc = "done"]
  /\ \E random \in RandomTokens :
       result' = BookingResponse(frame, payload, random)
  /\ UNCHANGED <<payload, configured, tokenCache, now, previous,
                 db, route, requests, search,
                 store>>

Next ==
  \/ Confirm
  \/ GetAccessToken
  \/ TokenExchange
  \/ Respond
  \/ Delay
  \/ Backoff
  \/ Return

\* The clock stands still in Spec: a cached token stays fresh until a 401
\* clears the cache.
Spec == Init /\ [][Next]_vars

\* Date.now() advances by 60 s.
Tick ==
  /\ now < MaxNow
  /\ now' = now + 1
  /\ UNCHANGED <<payload, configured, tokenCache, frame, result, previous,
                 db, route, requests, search,
                 store>>

\* One booking with a flight offer and a hotel offer against a configured
\* provider.
InitClock ==
  /\ Init
  /\ configured
  /\ payload.travelers = 1
  /\ payload.amadeusFlightOffer = 1
  /\ payload.amadeusHotelOffer = [offerId |-> "OFFER1", raw |-> <<>>]
  /\ payload.itineraryId = <<"itin9">>

NextClock == Next \/ Tick

\* What is kept of an earlier result: the confirmation number and the
\* fields that echo the request.
Kept(r) ==
  [NoResult EXCEPT !.returned = r.returned,
                   !.confirmationNumber = r.confirmationNumber,
                   !.itineraryId = r.itineraryId,
                   !.chargedAmount = r.chargedAmount,
                   !.flight = r.flight,
                   !.stay = r.stay,
                   !.travelers = r.travelers]

\* bookingAgentConfirm is called once more with the same payload; the token
\* cache of the module stays as the first call left it.
Again ==
  /\ frame.pc = "done"
  /\ ~previous.returned
  /\ previous' = Kept(result)
  /\ result' = NoResult
  /\ frame' = StartFrame
  /\ UNCHANGED <<payload, configured, tokenCache, now,
                 db, route, requests, search,
                 store>>

\* One traveler with a flight offer and a hotel offer, for either itinerary.
InitTwice ==
  /\ Init
  /\ configured
  /\ payload.travelers = 1
  /\ payload.amadeusFlightOffer = 1
  /\ payload.amadeusHotelOffer = [offerId |-> "OFFER1", raw |-> <<>>]

NextTwice == Next \/ Again

\* Two calls of bookingAgentConfirm with the same payload, one after the
\* other.
SpecTwice == InitTwice /\ [][NextTwice]_vars

\* The same calls while time passes: a cached token ages.
SpecClock == InitClock /\ [][NextClock]_vars

\* ------------------------------------------------------------- persistence
\* MaxEvents bounds the BookingStatusEvent rows of a run.
MaxEvents == 3

\* The row with key k is created or updated to v.
Put(f, k, v) == [x \in DOMAIN f \cup {k} |-> IF x = k THEN v ELSE f[x]]

\* A variant of the delete that leaves the row.
RemoveNone(f, k) == f

\* The row with key k is deleted.
Remove(f, k) == [x \in DOMAIN f \ {k} |-> f[x]]

\* Lines 80-81: the stored status of a receipt.
statusValue(receipt) ==
  IF receipt.status = "confirmed" THEN "CONFIRMED" ELSE "PENDING"

\* Lines 95-98: the flight error, else the hotel error, else undefined.
lastErrorMessage(receipt) ==
  IF receipt.amadeusFlightOrderError # Undefined
  THEN receipt.amadeusFlightOrderError
  ELSE receipt.amadeusHotelBookingError

\* Date.now() + 15 * 60 * 1000, in ticks of 60 s.
nextRunAt(t) == t + 15

\* A variant of lines 164-183 that never deletes a retry schedule.
RetriesAfterKeeping(d, id, status, receipt, t) ==
  IF status = "PENDING"
  THEN Put(d.retries, id,
           [attempts |-> IF id \in DOMAIN d.retries
                         THEN d.retries[id].attempts ELSE 0,
            nextRunAt |-> nextRunAt(t),
            lastError |-> lastErrorMessage(receipt)])
  ELSE d.retries

\* Lines 164-183: a PENDING booking gets its BookingRetry row upserted (the
\* update keeps attempts, the create takes existing?.retry?.attempts ?? 0);
\* else the row of an existing booking is deleted if there is one.
RetriesAfter(d, id, status, receipt, t) ==
  IF status = "PENDING"
  THEN Put(d.retries, id,
           [attempts |-> IF id \in DOMAIN d.retries
                         THEN d.retries[id].attempts ELSE 0,
            nextRunAt |-> nextRunAt(t),
            lastError |-> lastErrorMessage(receipt)])
  ELSE IF id \in DOMAIN d.bookings /\ id \in DOMAIN d.retries
  THEN Remove(d.retries, id)
  ELSE d.retries

\* A variant of lines 153-162 that writes a status event on every call.
EventsAfterEveryCall(d, id, status, receipt) ==
  Append(d.events, [bookingId |-> id,
                    fromStatus |-> IF id \in DOMAIN d.bookings
                                   THEN d.bookings[id].status ELSE ABSENT,
                    toStatus |-> status,
                    reason |-> lastErrorMessage(receipt)])

\* Lines 153-162: a status event is written for a new booking and for a
\* booking whose stored status changed.
EventsAfter(d, id, status, receipt) ==
  IF id \notin DOMAIN d.bookings
  THEN Append(d.events, [bookingId |-> id, fromStatus |-> ABSENT,
                         toStatus |-> status,
                         reason |-> lastErrorMessage(receipt)])
  ELSE IF d.bookings[id].status # status
  THEN Append(d.events, [bookingId |-> id,
                         fromStatus |-> d.bookings[id].status,
                         toStatus |-> status,
                         reason |-> lastErrorMessage(receipt)])
  ELSE d.events

\* A variant of persistBooking whose update of a retry schedule counts the
\* attempt.
persistBookingCounting(d, receipt, t) ==
  LET id == receipt.confirmationNumber
      status == statusValue(receipt)
      kept == RetriesAfter(d, id, status, receipt, t)
  IN [bookings |-> Put(d.bookings, id,
                       [status |-> status,
                        itineraryId |-> receipt.itineraryId]),
      retries |-> IF id \in DOMAIN d.retries /\ id \in DOMAIN kept
                  THEN [kept EXCEPT ![id].attempts = @ + 1]
                  ELSE kept,
      events |-> EventsAfter(d, id, status, receipt)]

\* persistBooking, lines 100-184: the tables its transaction commits at the
\* instant t. The booking is found by the receipt's confirmation number and
\* updated, or created.
persistBooking(d, receipt, t) ==
  LET id == receipt.confirmationNumber
      status == statusValue(receipt)
  IN [bookings |-> Put(d.bookings, id,
                       [status |-> status,
                        itineraryId |-> receipt.itineraryId]),
      retries |-> RetriesAfter(d, id, status, receipt, t),
      events |-> EventsAfter(d, id, status, receipt)]

\* The receipts persistBooking is called with for the request: a confirmed
\* one has no error, a pending one has the flight error, the hotel error or
\* both.
Receipts ==
  { [NoResult EXCEPT !.returned = TRUE,
                     !.confirmationNumber = confirmationNumber(payload, k),
                     !.status = IF fe = Undefined /\ he = Undefined
                                THEN "confirmed" ELSE "pending",
                     !.itineraryId = payload.itineraryId,
                     !.chargedAmount = payload.chargedAmount,
                     !.amadeusFlightOrderError = fe,
                     !.amadeusHotelBookingError = he] :
      k \in RandomTokens,
      fe \in {Undefined, Text("Amadeus flight order failed.")},
      he \in {Undefined, Text("Amadeus hotel booking failed.")} }

\* persistBooking is called with some receipt and its transaction commits.
Persist ==
  /\ Len(db.events) < MaxEvents
  /\ \E receipt \in Receipts : db' = persistBooking(db, receipt, now)
  /\ UNCHANGED <<payload, configured, tokenCache, now, frame, result,
                 previous, route, requests, search,
                 store>>

\* No booking call runs: the tables alone.
InitPersist ==
  /\ Init
  /\ configured
  /\ payload.travelers = 1
  /\ payload.amadeusFlightOffer = 1
  /\ payload.amadeusHotelOffer = NoHotel
  /\ payload.itineraryId = <<"itin9">>

NextPersist == Persist \/ Tick

\* Any sequence of persistBooking calls while time passes.
SpecPersist == InitPersist /\ [][NextPersist]_vars

\* ------------------------------------------------------------ booking route
\* bookingAgentConfirm has not been called yet.
Idle == [StartFrame EXCEPT !.pc = "idle"]

\* The POST handler has received the request body.
NewRequest(reattempt) ==
  [pc |-> "request", calls |-> <<>>, response |-> ABSENT,
   reattempt |-> reattempt]

\* A collaborator was called and returned, or threw.
Call(name, threw) == [name |-> name, threw |-> threw]

\* The handler answers: its locals are gone, the calls it made stay on
\* record.
Answer(r, status, body) ==
  [r EXCEPT !.pc = "responded", !.response = [status |-> status, body |-> body]]

\* Lines 84-155: the body is validated and bookingAgentConfirm is called.
\* The requests of the model carry an itinerary id, a headline, an amount, a
\* currency and complete travelers, so that line 118 is the check that can
\* fail.
Post ==
  /\ route.pc = "request"
  /\ IF HasNoTravelers(payload)
     THEN /\ route' = Answer(route, 400,
                 "Traveller details are required to complete booking.")
          /\ frame' = frame
     ELSE /\ route' = [route EXCEPT !.pc = "confirm"]
          /\ frame' = StartFrame
  /\ UNCHANGED <<payload, configured, tokenCache, now, result, previous, db,
                 requests, search,
                 store>>

\* Lines 166-171: bookingAgentConfirm threw.
ConfirmThrew ==
  /\ route.pc = "confirm"
  /\ frame.pc = "thrown"
  /\ route' = Answer(route, 500, "Unable to finalize booking")
  /\ UNCHANGED <<payload, configured, tokenCache, now, frame, result,
                 previous, db, requests, search,
                 store>>

\* A variant of lines 157-161 without the inner try: an error of
\* persistBooking reaches the handler's catch.
PersistReceiptUncaught ==
  /\ route.pc = "confirm"
  /\ frame.pc = "done"
  /\ \E threw \in BOOLEAN :
       /\ db' = IF threw THEN db ELSE persistBooking(db, result, now)
       /\ route' =
            IF threw
            THEN Answer([route EXCEPT
                           !.calls = Append(@, Call("persistBooking", threw))],
                        500, "Unable to finalize booking")
            ELSE [route EXCEPT
                    !.calls = Append(@, Call("persistBooking", threw)),
                    !.pc = "notify"]
  /\ UNCHANGED <<payload, configured, tokenCache, now, frame, result,
                 previous, requests, search,
                 store>>

\* Lines 155-161: bookingAgentConfirm returned the receipt and
\* persistBooking is awaited; its transaction commits, or it throws and the
\* error is logged.
PersistReceipt ==
  /\ route.pc = "confirm"
  /\ frame.pc = "done"
  /\ \E threw \in BOOLEAN :
       /\ db' = IF threw THEN db ELSE persistBooking(db, result, now)
       /\ route' = [route EXCEPT
                      !.calls = Append(@, Call("persistBooking", threw)),
                      !.pc = "notify"]
  /\ UNCHANGED <<payload, configured, tokenCache, now, frame, result,
                 previous, requests, search,
                 store>>

\* Line 163: sendBookingConfirmationEmail is awaited; it catches its own
\* errors.
Notify ==
  /\ route.pc = "notify"
  /\ route' = [route EXCEPT
                 !.calls = Append(@, Call("sendBookingConfirmationEmail",
                                          FALSE)),
                 !.pc = "respond"]
  /\ UNCHANGED <<payload, configured, tokenCache, now, frame, result,
                 previous, db, requests, search,
                 store>>

\* Line 165: the receipt is the response.
Reply ==
  /\ route.pc = "respond"
  /\ route' = Answer(route, 200, result)
  /\ UNCHANGED <<payload, configured, tokenCache, now, frame, result,
                 previous, db, requests, search,
                 store>>

\* The same request is posted once more: the booking is attempted again
\* with the same cached offers.
Reattempt ==
  /\ route.pc = "responded"
  /\ ~route.reattempt
  /\ route' = NewRequest(TRUE)
  /\ frame' = Idle
  /\ result' = NoResult
  /\ UNCHANGED <<payload, configured, tokenCache, now, previous, db,
                 requests, search,
                 store>>

\* A request with or without its traveler, with a flight offer and no hotel
\* offer, against a configured provider and empty tables.
InitRoute ==
  /\ payload \in Payloads
  /\ payload.travelers \in {0, 1}
  /\ payload.amadeusFlightOffer = 1
  /\ payload.amadeusHotelOffer = NoHotel
  /\ payload.itineraryId = <<"itin9">>
  /\ configured = TRUE
  /\ tokenCache = EmptyCache
  /\ now = 0
  /\ frame = Idle
  /\ result = NoResult
  /\ previous = NoResult
  /\ db = EmptyDb
  /\ route = NewRequest(FALSE)
  /\ requests = NoRequests
  /\ search = NoSearch
  /\ store = IdleStore

NextRoute ==
  \/ Post
  \/ Next
  \/ ConfirmThrew
  \/ PersistReceipt
  \/ Notify
  \/ Reply
  \/ Reattempt

\* The booking route handles a request and then the same request again.
SpecRoute == InitRoute /\ [][NextRoute]_vars

\* ------------------------------------------- concurrent transport requests
\* Two amadeusFetch calls run side by side on the one event loop: a step is
\* the code of one call between two awaits.
RequestIds == {1, 2}

\* amadeusFetch is about to be entered with attempt = 1. rejected holds the
\* tokens that were answered 401 and made the call send its request again.
StartRequest ==
  [pc |-> "start", fetchAttempt |-> 1, resentOn |-> 0, tokNow |-> 0,
   bearer |-> 0, rejected |-> {}]

\* The answers of the token endpoint to one exchange: a failure, or a token
\* that it has not issued before.
FreshTokenResponses ==
  [ok : {TRUE}, kind : {"json"},
   accessToken : {Cardinality(requests.issued) + 1},
   expiresIn : ExpiresInTicks]
  \cup [ok : {FALSE}, kind : {"json"}, accessToken : {0}, expiresIn : {0}]

\* The statuses the provider answers a request with.
RequestStatuses == {200, 401, 429, 500}

\* amadeusFetch is entered and runs to the first await that does not
\* resume at once: getAccessToken, lines 383-394, returns the cached token
\* while expiresAt > now + 60 s and the request is sent, else the token
\* exchange is sent.
EnterAmadeusFetch(call, cache, t) ==
  IF cache.token # 0 /\ cache.expiresAt > t + 1
  THEN [call EXCEPT !.bearer = cache.token, !.pc = "send"]
  ELSE [call EXCEPT !.tokNow = t, !.pc = "exchange"]

\* The call i enters amadeusFetch.
RequestStart ==
  \E i \in RequestIds :
    /\ requests.calls[i].pc = "start"
    /\ requests' =
         [requests EXCEPT
            !.calls[i] = EnterAmadeusFetch(@, tokenCache, now)]
    /\ UNCHANGED <<payload, configured, tokenCache, now, frame, result,
                   previous, db, route, search,
                 store>>

\* Lines 399-420 for the call i: the token endpoint answered. Lines 413-414
\* and the return run without an await between them.
RequestTokenExchange ==
  \E i \in RequestIds :
    /\ requests.calls[i].pc = "exchange"
    /\ \E r \in FreshTokenResponses :
         /\ tokenCache' =
              CacheAfterTokenResponse(tokenCache, requests.calls[i], r)
         /\ requests' =
              IF r.ok
              THEN [requests EXCEPT
                      !.calls[i] = [@ EXCEPT !.bearer = tokenCache'.token,
                                             !.pc = "send"],
                      !.issued = @ \cup
                        {[token |-> r.accessToken,
                          tokNow |-> requests.calls[i].tokNow,
                          expiresIn |-> r.expiresIn,
                          call |-> i,
                          attempt |-> requests.calls[i].fetchAttempt]}]
              ELSE [requests EXCEPT !.calls[i] = [@ EXCEPT !.pc = "thrown"]]
    /\ UNCHANGED <<payload, configured, now, frame, result, previous, db,
                   route, search,
                 store>>

\* Lines 468-510 for the call i: the provider answered its request. A 401
\* that is retried clears the cache and enters amadeusFetch again in the
\* same step.
RequestRespond ==
  \E i \in RequestIds :
    /\ requests.calls[i].pc = "send"
    /\ \E status \in RequestStatuses :
         LET response == [status |-> status, retryAfter |-> Absent]
             call == requests.calls[i]
         IN /\ tokenCache' = CacheAfterResponse(tokenCache, call, response)
            /\ requests' =
                 [requests EXCEPT !.calls[i] =
                    IF status = 200
                    THEN [call EXCEPT !.pc = "returned"]
                    ELSE IF IsResent(call, response) /\ status = 401
                    THEN EnterAmadeusFetch(
                           [call EXCEPT
                              !.fetchAttempt = @ + 1,
                              !.resentOn = 401,
                              !.rejected = @ \cup {call.bearer},
                              !.bearer = 0],
                           tokenCache', now)
                    ELSE IF IsResent(call, response) /\ status = 429
                    THEN [call EXCEPT !.resentOn = 429, !.bearer = 0,
                                      !.pc = "delay"]
                    ELSE [call EXCEPT !.pc = "thrown"]]
    /\ UNCHANGED <<payload, configured, now, frame, result, previous, db,
                   route, search,
                 store>>

\* Lines 500-507 for the call i: the rate-limit delay ended and amadeusFetch
\* is entered again.
RequestDelay ==
  \E i \in RequestIds :
    /\ requests.calls[i].pc = "delay"
    /\ requests' =
         [requests EXCEPT !.calls[i] =
            EnterAmadeusFetch([@ EXCEPT !.fetchAttempt = @ + 1],
                              tokenCache, now)]
    /\ UNCHANGED <<payload, configured, tokenCache, now, frame, result,
                   previous, db, route, search,
                 store>>

\* Two transport requests start against a configured provider and an empty
\* token cache.
InitConcurrent ==
  /\ payload \in Payloads
  /\ payload.travelers = 1
  /\ payload.amadeusFlightOffer = 1
  /\ payload.amadeusHotelOffer = NoHotel
  /\ payload.itineraryId = <<"itin9">>
  /\ configured = TRUE
  /\ tokenCache = EmptyCache
  /\ now = 0
  /\ frame = Idle
  /\ result = NoResult
  /\ previous = NoResult
  /\ db = EmptyDb
  /\ route = NoRoute
  /\ requests = [calls |-> [i \in RequestIds |-> StartRequest], issued |-> {}]
  /\ search = NoSearch
  /\ store = IdleStore

NextConcurrent ==
  \/ RequestStart
  \/ RequestTokenExchange
  \/ RequestRespond
  \/ RequestDelay
  \/ Tick

\* Every interleaving of the two requests while time passes.
SpecConcurrent == InitConcurrent /\ [][NextConcurrent]_vars

\* ------------------------------------------------------------------ search
\* Lines 33-46 of coordinator.ts: the entry of the agent is replaced, or
\* appended if there is none.
updateTrace(trace, agent, status) ==
  IF \E n \in DOMAIN trace : trace[n].agent = agent
  THEN [n \in DOMAIN trace |->
          IF trace[n].agent = agent
          THEN [agent |-> agent, status |-> status]
          ELSE trace[n]]
  ELSE Append(trace, [agent |-> agent, status |-> status])

\* Lines 147-152: the trace runTravelSearch starts with.
StartTrace ==
  << [agent |-> "Coordinator", status |-> "running"],
     [agent |-> "LLM Parser", status |-> "pending"],
     [agent |-> "Flight Agent", status |-> "pending"],
     [agent |-> "Hotel Agent", status |-> "pending"] >>

\* The offer lists a provider search returns: the empty list and lists of
\* offers with valid prices.
AmadeusFlights ==
  {<<>>, <<"AMA-F1">>, <<"AMA-F1", "AMA-F2">>, <<"AMA-F1", "AMA-F2", "AMA-F3">>}
AmadeusHotels ==
  {<<>>, <<"AMA-H1">>, <<"AMA-H1", "AMA-H2">>, <<"AMA-H1", "AMA-H2", "AMA-H3">>}

\* buildMockFlights and buildMockHotels: two offers each.
MockFlights == <<"flight-1", "flight-2">>
MockHotels == <<"hotel-1", "hotel-2">>

\* Lines 48-142: the flights are paired with the hotels, flight by flight,
\* up to four itineraries.
buildItineraries(flights, hotels) ==
  LET pairs ==
        [n \in 1..(Len(flights) * Len(hotels)) |->
           [flight |-> flights[((n - 1) \div Len(hotels)) + 1],
            lodging |-> hotels[((n - 1) % Len(hotels)) + 1]]]
  IN SubSeq(pairs, 1, Min(4, Len(pairs)))

\* flightAgentSearch and hotelAgentSearch up to their first await: the
\* provider search with credentials, else the mock delay.
AgentStarted ==
  [pc |-> IF isAmadeusConfigured THEN "searching" ELSE "delaying",
   source |-> ABSENT]

\* runTravelSearch is called: lines 147-156, up to the await of
\* structureQueryWithOpenAI.
RunTravelSearch ==
  /\ search.pc = "start"
  /\ search' = [search EXCEPT
                  !.trace = updateTrace(StartTrace, "LLM Parser", "running"),
                  !.pc = "parsing"]
  /\ UNCHANGED <<payload, configured, tokenCache, now, frame, result,
                 previous, db, route, requests,
                 store>>

\* Lines 157-203: structureQueryWithOpenAI returned the structured query (it
\* returns its fallback on every error), whose departureDate matched
\* \d{4}-\d{2}-\d{2} and is a date or not; both agents are started and
\* Promise.all is awaited.
Structured ==
  /\ search.pc = "parsing"
  /\ \E dateValid \in BOOLEAN :
       search' = [search EXCEPT
         !.dateValid = dateValid,
         !.trace = updateTrace(
                     updateTrace(
                       updateTrace(@, "LLM Parser", "completed"),
                       "Flight Agent", "running"),
                     "Hotel Agent", "running"),
         !.flights = <<>>,
         !.hotels = <<>>,
         !.flightAgent = AgentStarted,
         !.hotelAgent = AgentStarted,
         !.pc = "awaiting"]
  /\ UNCHANGED <<payload, configured, tokenCache, now, frame, result,
                 previous, db, route, requests,
                 store>>

\* flightAgentSearch, lines 104-111 of part_005, and lines 171-178 of
\* coordinator.ts: searchAmadeusFlights returned offers, which the agent
\* returns and the coordinator stores; or it returned none or threw, and the
\* agent goes on to its mock delay.
FlightSearchAnswered ==
  /\ search.flightAgent.pc = "searching"
  /\ \E threw \in BOOLEAN, amadeusResults \in AmadeusFlights :
       search' =
         IF ~threw /\ Len(amadeusResults) > 0
         THEN [search EXCEPT
                 !.flights = amadeusResults,
                 !.flightAgent = [pc |-> "completed", source |-> "amadeus"],
                 !.trace = updateTrace(@, "Flight Agent", "completed")]
         ELSE [search EXCEPT !.flightAgent.pc = "delaying"]
  /\ UNCHANGED <<payload, configured, tokenCache, now, frame, result,
                 previous, db, route, requests,
                 store>>

\* A variant of the flight agent's catch that also drops the hotels found.
FlightMockReadyDiscarding ==
  /\ search.flightAgent.pc = "delaying"
  /\ search' =
       IF search.dateValid
       THEN [search EXCEPT
               !.flights = MockFlights,
               !.flightAgent = [pc |-> "completed", source |-> "mock"],
               !.trace = updateTrace(@, "Flight Agent", "completed")]
       ELSE [search EXCEPT
               !.hotels = <<>>,
               !.flightAgent.pc = "failed",
               !.trace = updateTrace(@, "Flight Agent", "failed")]
  /\ UNCHANGED <<payload, configured, tokenCache, now, frame, result,
                 previous, db, route, requests,
                 store>>

\* flightAgentSearch, lines 113-114 of part_005, and lines 171-182 of
\* coordinator.ts: after the mock delay buildMockFlights returns the mock
\* offers, or buildIso throws a RangeError on a departureDate that is no
\* date and the coordinator marks the agent failed.
FlightMockReady ==
  /\ search.flightAgent.pc = "delaying"
  /\ search' =
       IF search.dateValid
       THEN [search EXCEPT
               !.flights = MockFlights,
               !.flightAgent = [pc |-> "completed", source |-> "mock"],
               !.trace = updateTrace(@, "Flight Agent", "completed")]
       ELSE [search EXCEPT
               !.flightAgent.pc = "failed",
               !.trace = updateTrace(@, "Flight Agent", "failed")]
  /\ UNCHANGED <<payload, configured, tokenCache, now, frame, result,
                 previous, db, route, requests,
                 store>>

\* hotelAgentSearch, lines 60-67 of hotelAgent.ts, and lines 189-196 of
\* coordinator.ts.
HotelSearchAnswered ==
  /\ search.hotelAgent.pc = "searching"
  /\ \E threw \in BOOLEAN, amadeusHotels \in AmadeusHotels :
       search' =
         IF ~threw /\ Len(amadeusHotels) > 0
         THEN [search EXCEPT
                 !.hotels = amadeusHotels,
                 !.hotelAgent = [pc |-> "completed", source |-> "amadeus"],
                 !.trace = updateTrace(@, "Hotel Agent", "completed")]
         ELSE [search EXCEPT !.hotelAgent.pc = "delaying"]
  /\ UNCHANGED <<payload, configured, tokenCache, now, frame, result,
                 previous, db, route, requests,
                 store>>

\* hotelAgentSearch, lines 69-70 of hotelAgent.ts, and lines 189-196 of
\* coordinator.ts: buildMockHotels does not throw on a structured query.
HotelMockReady ==
  /\ search.hotelAgent.pc = "delaying"
  /\ search' = [search EXCEPT
                  !.hotels = MockHotels,
                  !.hotelAgent = [pc |-> "completed", source |-> "mock"],
                  !.trace = updateTrace(@, "Hotel Agent", "completed")]
  /\ UNCHANGED <<payload, configured, tokenCache, now, frame, result,
                 previous, db, route, requests,
                 store>>

\* Both promises are settled.
Settled(s) ==
  /\ s.flightAgent.pc \in {"completed", "failed"}
  /\ s.hotelAgent.pc \in {"completed", "failed"}

\* Lines 203-207: Promise.all resolved; the itineraries and the trace are
\* returned.
ReturnSearch ==
  /\ search.pc = "awaiting"
  /\ Settled(search)
  /\ search' = [search EXCEPT
                  !.trace = updateTrace(@, "Coordinator", "completed"),
                  !.itineraries = buildItineraries(search.flights,
                                                   search.hotels),
                  !.pc = "returned"]
  /\ UNCHANGED <<payload, configured, tokenCache, now, frame, result,
                 previous, db, route, requests,
                 store>>

\* runTravelSearch is called with or without provider credentials.
InitSearch ==
  /\ payload \in Payloads
  /\ payload.travelers = 1
  /\ payload.amadeusFlightOffer = 1
  /\ payload.amadeusHotelOffer = NoHotel
  /\ payload.itineraryId = <<"itin9">>
  /\ configured \in BOOLEAN
  /\ tokenCache = EmptyCache
  /\ now = 0
  /\ frame = Idle
  /\ result = NoResult
  /\ previous = NoResult
  /\ db = EmptyDb
  /\ route = NoRoute
  /\ requests = NoRequests
  /\ search = [NoSearch EXCEPT !.pc = "start"]
  /\ store = IdleStore

NextSearch ==
  \/ RunTravelSearch
  \/ Structured
  \/ FlightSearchAnswered
  \/ FlightMockReady
  \/ HotelSearchAnswered
  \/ HotelMockReady
  \/ ReturnSearch

\* One runTravelSearch call under every order in which its two agents
\* settle.
SpecSearch == InitSearch /\ [][NextSearch]_vars

\* The same with every awaited promise settling in the end.
SpecSearchFair == SpecSearch /\ WF_vars(NextSearch)

\* ------------------------------------------------------------ the two legs
\* One booking of the short itinerary, with or without a flight offer priced
\* for one traveler and with or without a hotel offer id, for every length
\* of the traveler list.
InitLegs ==
  /\ Init
  /\ payload.travelers \in 0..MaxTravelers
  /\ payload.amadeusFlightOffer \in {NoOffer, 1}
  /\ payload.amadeusHotelOffer \in {NoHotel, [offerId |-> "OFFER1", raw |-> <<>>]}
  /\ payload.itineraryId = <<"itin9">>

\* The calls of bookingAgentConfirm that can run both legs.
SpecLegs == InitLegs /\ [][Next]_vars

\* The same calls when every request to the token endpoint and to the
\* provider is answered and every timer fires: each await of the call
\* settles.
SpecLegsFair == SpecLegs /\ WF_vars(Next)

\* ------------------------------------------------------------- search store
\* MaxSubmits bounds the calls of submit in a run.
MaxSubmits == 2

\* The queries the user submits.
Queries == {"tokyo", "paris"}

\* The bodies /api/search answers a query with: the trace of the search for
\* that query and its itineraries, none or one.
SearchData(q) ==
  { [itineraries |-> its, trace |-> <<[agent |-> "coordinator", query |-> q]>>] :
      its \in {<<>>, <<[query |-> q, rank |-> 1]>>} }

\* Lines 48-53: set() merges the results into the store.
SetResults(st, data) ==
  [st EXCEPT !.phase = "results", !.isSubmitting = FALSE,
             !.itineraries = data.itineraries, !.trace = data.trace]

\* Lines 56-60: set() merges the error into the store.
SetError(st, message) ==
  [st EXCEPT !.phase = "error", !.isSubmitting = FALSE, !.error = message]

\* The submit i has run to its return.
Done(st, i) == [st EXCEPT !.submits[i].pc = "done"]

\* submit(payload), lines 33-40: the store is set to searching with the
\* payload's query and the request is sent. afterReset records that reset()
\* was called while the submit was in flight.
Submit ==
  /\ Len(store.submits) < MaxSubmits
  /\ \E q \in Queries :
       store' =
         [store EXCEPT
            !.phase = "searching", !.isSubmitting = TRUE, !.error = ABSENT,
            !.query = q,
            !.submits = Append(@, [query |-> q, pc |-> "fetch",
                                   afterReset |-> FALSE])]
  /\ UNCHANGED <<payload, configured, tokenCache, now, frame, result,
                 previous, db, route, requests, search>>

\* Lines 36-45 for the submit i: fetch resolved with an ok response, with a
\* response that is not ok, or it rejected and the catch stores the error.
FetchAnswered ==
  \E i \in DOMAIN store.submits :
    /\ store.submits[i].pc = "fetch"
    /\ \/ store' = [store EXCEPT !.submits[i].pc = "json"]
       \/ store' = [store EXCEPT !.submits[i].pc = "text"]
       \/ store' = Done(SetError(store, "Failed to fetch"), i)
    /\ UNCHANGED <<payload, configured, tokenCache, now, frame, result,
                   previous, db, route, requests, search>>

\* Lines 43-44 and 47-61 for the submit i: the body of the response was
\* read. An ok body that is JSON is stored as the results; one that is not
\* makes response.json() reject; the text of a response that is not ok, or
\* "Search failed" for an empty text, is stored as the error.
BodyRead ==
  \E i \in DOMAIN store.submits :
    /\ \/ /\ store.submits[i].pc = "json"
          /\ \/ \E data \in SearchData(store.submits[i].query) :
                  store' = Done(SetResults(store, data), i)
             \/ store' = Done(SetError(store, "SyntaxError: invalid JSON"), i)
       \/ /\ store.submits[i].pc = "text"
          /\ \E text \in {"", "Invalid search request"} :
               store' = Done(SetError(store, IF text = "" THEN "Search failed"
                                             ELSE text), i)
    /\ UNCHANGED <<payload, configured, tokenCache, now, frame, result,
                   previous, db, route, requests, search>>

\* reset(), lines 64-72: everything but the query goes back to its first
\* value.
Reset ==
  /\ store' =
       [store EXCEPT
          !.phase = "idle", !.isSubmitting = FALSE, !.itineraries = <<>>,
          !.trace = <<>>, !.error = ABSENT,
          !.submits = [i \in DOMAIN @ |->
                         IF @[i].pc = "done" THEN @[i]
                         ELSE [@[i] EXCEPT !.afterReset = TRUE]]]
  /\ UNCHANGED <<payload, configured, tokenCache, now, frame, result,
                 previous, db, route, requests, search>>

\* The store alone: no booking and no search runs on the server side of the
\* model.
InitStore ==
  /\ Init
  /\ configured
  /\ payload.travelers = 1
  /\ payload.amadeusFlightOffer = 1
  /\ payload.amadeusHotelOffer = NoHotel
  /\ payload.itineraryId = <<"itin9">>

NextStore ==
  \/ Submit
  \/ FetchAnswered
  \/ BodyRead
  \/ Reset

\* Any calls of submit and reset, with the responses in any order.
SpecStore == InitStore /\ [][NextStore]_vars

\* ------------------------------------------------------------------ claims
\* A step that enters amadeusFetch for the provider function op: the call
\* of priceAmadeusFlightOffer, createAmadeusFlightOrder or
\* bookAmadeusHotelOffer.
Issues(op) ==
  frame'.pc = "token" /\ frame'.fetchAttempt = 1 /\ frame'.op = op

\* No provider function has been called and no request has been sent to the
\* token endpoint or to the provider: every call passes through the pcs of
\* the transport and leaves op set.
NoProviderCall ==
  /\ frame.op = "none"
  /\ frame.pc \notin {"token", "exchange", "send", "delay", "wait"}
  /\ tokenCache = EmptyCache

NoTravelers == payload.travelers = Absent \/ payload.travelers = 0

\* C1: a request whose traveler list is empty or absent makes
\* bookingAgentConfirm throw before any provider call: no token exchange,
\* no pricing, flight-order or hotel-booking call, whatever offers the
\* request carries and whether or not the provider is configured; nothing is
\* returned.
C1_NoTravelersFailsFast ==
  NoTravelers =>
    /\ NoProviderCall
    /\ frame.pc \in {"start", "thrown"}
    /\ ~result.returned

C1_Witness ==
  /\ payload.travelers = 0
  /\ frame.pc = "thrown"
  /\ configured
  /\ payload.amadeusFlightOffer # NoOffer
  /\ payload.amadeusHotelOffer.offerId # ABSENT

\* C2: with a non-empty traveler list and an unconfigured provider,
\* bookingAgentConfirm makes no provider call, does not throw, and what it
\* returns has status "confirmed", no flight order id, no hotel reservation
\* id, no provider payloads and no error fields, even with cached offers.
C2_UnconfiguredConfirms ==
  (~NoTravelers /\ ~configured) =>
    /\ NoProviderCall
    /\ frame.pc \in {"start", "finish", "done"}
    /\ result.returned =>
         /\ result.status = "confirmed"
         /\ result.amadeusFlightOrderId = ABSENT
         /\ result.amadeusHotelReservationId = ABSENT
         /\ result.amadeusFlightOrder = ABSENT
         /\ result.amadeusHotelBooking = ABSENT
         /\ result.amadeusFlightOrderError = Undefined
         /\ result.amadeusHotelBookingError = Undefined

C2_Witness ==
  /\ ~configured
  /\ result.returned
  /\ payload.travelers = 2
  /\ payload.amadeusFlightOffer # NoOffer
  /\ payload.amadeusHotelOffer.offerId # ABSENT

\* The outcome of each leg of a returned call.  The flight leg is attempted
\* when line 37 lets it run; the hotel leg has been attempted when the last
\* provider function called is bookAmadeusHotelOffer.  An attempted leg has
\* succeeded when its provider id is in the result and has failed otherwise.
FlightAttempted == configured /\ payload.amadeusFlightOffer # NoOffer
HotelAttempted == frame.op = "hotel"
FlightFailed == FlightAttempted /\ result.amadeusFlightOrderId = ABSENT
HotelFailed == HotelAttempted /\ result.amadeusHotelReservationId = ABSENT

\* C3: for every combination of leg outcomes (succeeded, failed, not
\* attempted) the returned status is "confirmed" if and only if no attempted
\* leg failed, and "pending" otherwise; when exactly one leg failed, only
\* that leg's error field is populated.
C3_StatusFollowsLegs ==
  result.returned =>
    /\ result.status \in {"confirmed", "pending"}
    /\ result.status = "confirmed" <=> (~FlightFailed /\ ~HotelFailed)
    /\ (FlightFailed /\ ~HotelFailed) =>
         /\ result.status = "pending"
         /\ result.amadeusFlightOrderError # Undefined
         /\ result.amadeusHotelBookingError = Undefined
    /\ (HotelFailed /\ ~FlightFailed) =>
         /\ result.status = "pending"
         /\ result.amadeusHotelBookingError # Undefined
         /\ result.amadeusFlightOrderError = Undefined

\* The flight leg failed and the hotel leg then succeeded.
C3_Witness ==
  /\ result.returned
  /\ FlightFailed
  /\ HotelAttempted
  /\ ~HotelFailed
  /\ result.status = "pending"

\* C4: with a non-empty traveler list and a configured provider,
\* bookingAgentConfirm never throws, whatever the token endpoint and the
\* provider answer: it returns, and the status it returns is "confirmed" or
\* "pending".
C4_NeverThrows ==
  (~NoTravelers /\ configured) =>
    /\ frame.pc # "thrown"
    /\ result.returned => result.status \in {"confirmed", "pending"}

\* A pricing response whose priced offer has fewer travelerPricings than the
\* request has travelers.
PricedShort(response) ==
  /\ response.status = 200
  /\ response.body.kind = "json"
  /\ response.body.offer \notin {NoOffer, Absent}
  /\ response.body.offer < payload.travelers

\* The flight leg has failed with a party mismatch.
FlightMismatchRecorded(f) ==
  /\ f.amadeusFlightOrderError.kind = "mismatch"
  /\ f.status = "pending"

\* The flight leg is over: the call is at line 200 or later.
FlightLegOver(f) ==
  \/ f.pc = "finish"
  \/ f.op = "hotel" /\ f.pc = "token" /\ f.fetchAttempt = 1 /\ f.attempt = 1

C5_AtOnce ==
  (frame.pc = "send" /\ frame.op = "price") =>
    \A response \in Responses("price") :
      PricedShort(response) =>
        LET f == AfterResponse(frame, response)
        IN FlightMismatchRecorded(f) /\ FlightLegOver(f)
           /\ f.flightOrderId = ABSENT

C5_NoFurtherCall ==
  FlightMismatchRecorded(frame) =>
    /\ ~Issues("price")
    /\ ~Issues("order")
    /\ FlightMismatchRecorded(frame')
    /\ result'.returned =>
         /\ result'.amadeusFlightOrderError.kind = "mismatch"
         /\ result'.status = "pending"
         /\ result'.amadeusFlightOrderId = ABSENT

\* C5: a pricing response whose offer has fewer traveler pricings than the
\* request has travelers ends the flight leg at once with a party-mismatch
\* flight error and status "pending", under either strategy and at every
\* attempt; from then on no pricing call and no flight-order call is issued,
\* and what is returned carries that error and status "pending".
C5_ShortPricingFailsAtOnce ==
  [] C5_AtOnce /\ [][C5_NoFurtherCall]_vars

\* The mismatch was raised at the second attempt of the compatibility
\* strategy, where both kinds of retry were still open.
C5_Witness ==
  /\ result.returned
  /\ result.amadeusFlightOrderError.kind = "mismatch"
  /\ result.status = "pending"
  /\ frame.strategy = "compatibility"
  /\ frame.attempt = 2

\* C6: every mismatch raised by the flight capacity check has
\* supported < requested, for every priced count >= 0 and every requested
\* count >= 1.
C6_CapacityMismatchCounts ==
  (frame.pc = "send" /\ frame.op = "price") =>
    \A response \in Responses("price") :
      PricedShort(response) =>
        LET f == AfterResponse(frame, response)
        IN /\ f.amadeusFlightOrderError.kind = "mismatch"
           /\ f.amadeusFlightOrderError.supported
                < f.amadeusFlightOrderError.requested

\* The fields of the response's error entries that the code reads as
\* strings are strings or missing.
WellTyped(response) ==
  \A i \in 1..Len(response.body.errors) :
    /\ response.body.errors[i].detail # NONSTRING
    /\ response.body.errors[i].title # NONSTRING

\* A response that amadeusFetch turns into an AmadeusApiError of category
\* server.
ServerError(response) ==
  /\ response.status >= 500
  /\ response.body.kind = "json"

\* C7: in the flight leg, a server-category provider error (here: one whose
\* fields are strings) at attempt 1 or 2 leads to the next attempt, and at
\* attempt 3 marks the leg failed (flight error recorded, status "pending")
\* with no further price-then-order attempt; attempts are numbered 1 to 3.
C7_ThreeFlightAttempts ==
  (frame.pc = "send" /\ frame.op \in {"price", "order"}) =>
    /\ frame.attempt \in 1..MAX_FLIGHT_ORDER_ATTEMPTS
    /\ \A response \in Responses(frame.op) :
         (ServerError(response) /\ WellTyped(response)) =>
           LET f == AfterResponse(frame, response)
           IN IF frame.attempt < 3
              THEN f.pc = "wait" /\ f.attempt = frame.attempt
              ELSE /\ f.amadeusFlightOrderError # Undefined
                   /\ f.status = "pending"
                   /\ FlightLegOver(f)

\* The hotel leg is marked failed.
HotelMarkedFailed(f) ==
  /\ f.pc = "finish"
  /\ f.amadeusHotelBookingError # Undefined
  /\ f.status = "pending"
  /\ f.hotelReservationId = ABSENT

\* A response that ends the hotel submission with an error that is not of
\* category server: another provider error or a non-provider error.
OtherHotelFailure(response) ==
  /\ ~ServerError(response)
  /\ ~IsResent(frame, response)
  /\ ~(response.status = 200 /\ response.body.kind = "json"
         /\ response.body.id # ABSENT)

\* C8: in the hotel leg, a server-category provider error at submission 1 or
\* 2 leads to the next submission and at submission 3 marks the leg failed
\* (hotel error recorded, status "pending"); any other failure marks the leg
\* failed after the submission that produced it.
C8_ThreeHotelSubmissions ==
  (frame.pc = "send" /\ frame.op = "hotel") =>
    /\ frame.attempt \in 1..MAX_HOTEL_ORDER_ATTEMPTS
    /\ \A response \in Responses("hotel") :
         LET f == AfterResponse(frame, response)
         IN /\ ServerError(response) =>
                 IF frame.attempt < 3
                 THEN f.pc = "wait" /\ f.attempt = frame.attempt
                 ELSE HotelMarkedFailed(f)
            /\ OtherHotelFailure(response) => HotelMarkedFailed(f)

\* A response that ends the running default-strategy attempt with a provider
\* error that is a segment sell failure: amadeusFetch does not resend the
\* request and attemptFlightBooking does not retry.
FinalSegmentSellFailure(response) ==
  /\ response.status # 200
  /\ response.body.kind = "json"
  /\ ~IsResent(frame, response)
  /\ ~(ServerError(response) /\ frame.attempt < MAX_FLIGHT_ORDER_ATTEMPTS)
  /\ isSegmentSellFailure(buildAmadeusError(response))

\* attemptFlightBooking("compatibility") has just been called.
CompatibilityStarted(f) ==
  /\ f.strategy = "compatibility"
  /\ f.attempt = 1
  /\ f.op = "price" /\ f.pc = "token" /\ f.fetchAttempt = 1

C9_EverySegmentSellRetried ==
  (frame.pc = "send" /\ frame.op \in {"price", "order"}
     /\ frame.strategy = "default") =>
    \A response \in Responses(frame.op) :
      FinalSegmentSellFailure(response) =>
        CompatibilityStarted(AfterResponse(frame, response))

\* C9 as stated: a segment sell failure of the default attempt always starts
\* the compatibility strategy, and once the compatibility strategy runs no
\* further pricing call is issued: its pricing call is issued exactly once.
C9_OneCompatibilityPricing ==
  /\ [] C9_EverySegmentSellRetried
  /\ [][frame.strategy = "compatibility" => ~Issues("price")]_vars

C9_RetryDecision ==
  (frame.pc = "send" /\ frame.op \in {"price", "order"}) =>
    \A response \in Responses(frame.op) :
      LET f == AfterResponse(frame, response)
          e == buildAmadeusError(response)
      IN IF frame.strategy = "default"
         THEN /\ FinalSegmentSellFailure(response) =>
                   IF isTravelerNotPricedErrorThrows(e)
                   THEN f.pc = "thrown"
                   ELSE IF isTravelerNotPricedError(e)
                   THEN /\ FlightMismatchRecorded(f)
                        /\ FlightLegOver(f)
                        /\ f.strategy = "default"
                   ELSE CompatibilityStarted(f)
              /\ f.strategy = "compatibility" =>
                   FinalSegmentSellFailure(response)
         ELSE /\ f.strategy = "compatibility"
              /\ f.pc = "wait" <=>
                   /\ ServerError(response)
                   /\ frame.attempt < MAX_FLIGHT_ORDER_ATTEMPTS

C9_CompatibilityPricings ==
  /\ frame.strategy = "compatibility" => frame'.strategy = "compatibility"
  /\ (Issues("price") /\ frame'.strategy = "compatibility") =>
       IF frame.strategy = "default"
       THEN frame.pc = "send" /\ frame'.attempt = 1
       ELSE /\ frame.pc = "wait"
            /\ frame'.attempt = frame.attempt + 1
            /\ frame'.attempt <= MAX_FLIGHT_ORDER_ATTEMPTS

\* C9, amended: when the default-strategy attempt ends with a provider error
\* that is a segment sell failure, attemptFlightBooking("compatibility") is
\* called once, unless the error also counts as traveler-not-priced (the leg
\* then fails with a party mismatch and nothing is retried) or that test
\* throws (the call then throws); nothing else starts the compatibility
\* strategy.  The compatibility attempt is repeated after server-category
\* errors only, so its pricing call is issued 1 to 3 times, and the strategy
\* never goes back to default.
C9_CompatibilityOnceWithRetries ==
  [] C9_RetryDecision /\ [][C9_CompatibilityPricings]_vars

\* The third pricing call of the compatibility strategy has been sent.
C9_Witness ==
  /\ frame.strategy = "compatibility"
  /\ frame.attempt = 3
  /\ frame.op = "price"
  /\ frame.pc = "send"

\* A flight-order response that carries an order id.
OrderWithId(response) ==
  /\ response.status = 200
  /\ response.body.kind = "json"
  /\ response.body.id # ABSENT

\* C10: when the compatibility retry returns an order with an id, the flight
\* order id is set, no flight error is recorded, the status stays
\* "confirmed", the provider stays enabled and the hotel leg starts if the
\* request has a hotel offer id; what is then returned has the order id, no
\* flight error, and is "pending" only if the hotel leg failed.
C10_CompatibilitySuccess ==
  /\ (frame.pc = "send" /\ frame.op = "order"
        /\ frame.strategy = "compatibility") =>
       \A response \in Responses("order") :
         OrderWithId(response) =>
           LET f == AfterResponse(frame, response)
           IN /\ f.flightOrderId = response.body.id
              /\ f.amadeusFlightOrderError = Undefined
              /\ f.status = "confirmed"
              /\ f.amadeusAvailable
              /\ IF payload.amadeusHotelOffer.offerId # ABSENT
                 THEN f.op = "hotel" /\ f.pc = "token" /\ f.attempt = 1
                 ELSE f.pc = "finish"
  /\ (result.returned /\ frame.strategy = "compatibility"
        /\ result.amadeusFlightOrderId # ABSENT) =>
       /\ result.amadeusFlightOrderError = Undefined
       /\ result.status = "pending" => HotelFailed
       /\ payload.amadeusHotelOffer.offerId # ABSENT => HotelAttempted

C10_Witness ==
  /\ result.returned
  /\ frame.strategy = "compatibility"
  /\ result.amadeusFlightOrderId # ABSENT
  /\ HotelAttempted
  /\ result.amadeusHotelReservationId # ABSENT
  /\ result.status = "confirmed"

\* C11: when the request that a 401 made amadeusFetch send again is answered
\* 401 again, amadeusFetch throws an AmadeusApiError of category auth and
\* does not send the request a third time.
C11_Second401Surfaced ==
  (frame.pc = "send" /\ frame.fetchAttempt = 2 /\ frame.resentOn = 401) =>
    \A response \in Responses(frame.op) :
      (response.status = 401 /\ response.body.kind = "json") =>
        /\ AfterResponse(frame, response)
             = FetchThrows(frame, buildAmadeusError(response))
        /\ buildAmadeusError(response).category = "auth"
        /\ CacheAfterResponse(tokenCache, frame, response) = tokenCache

\* C12: a 429 at attempt k < 3 is followed by a delay of the Retry-After
\* value in seconds whenever the header is present, 0 included, and of
\* min(500 * 2^(k-1), 8000) ms only when the header is absent.
C12_RetryAfterHonored ==
  (frame.pc = "send" /\ frame.fetchAttempt < MAX_AMADEUS_RETRY_ATTEMPTS) =>
    \A response \in Responses(frame.op) :
      response.status = 429 =>
        LET f == AfterResponse(frame, response)
        IN /\ f.pc = "delay"
           /\ f.delayMs =
                IF response.retryAfter # Absent
                THEN response.retryAfter * 1000
                ELSE Min(500 * 2 ^ (frame.fetchAttempt - 1), 8000)

\* A non-2xx response that ends the request: neither a 401 nor a 429 that
\* amadeusFetch answers by sending the request again.
EndsRequest(response) ==
  response.status # 200 /\ ~IsResent(frame, response)

\* C13: every non-2xx response that ends a request is thrown as an
\* AmadeusApiError with the status of the response and the category derived
\* from it, whatever the body: JSON with error entries, JSON without them,
\* empty, or not JSON (the last three with an empty list of entries).
C13_EveryBodyGivesApiError ==
  frame.pc = "send" =>
    \A response \in Responses(frame.op) :
      EndsRequest(response) =>
        LET error == buildAmadeusError(response)
        IN /\ AfterResponse(frame, response) = FetchThrows(frame, error)
           /\ error.type = "api"
           /\ error.status = response.status
           /\ error.category =
                determineAmadeusCategory(response.status,
                                         error.primaryError.code)
           /\ (response.body.kind # "json" \/ response.body.errors = <<>>)
                => error.primaryError = NoEntry

\* The primary error code of a response body, as AmadeusApiError reads it.
PrimaryCode(response) ==
  IF response.body.errors = <<>> THEN ABSENT ELSE response.body.errors[1].code

\* A non-2xx response with a JSON body that ends the request: the one that
\* becomes an AmadeusApiError.
BecomesApiError(response) ==
  EndsRequest(response) /\ response.body.kind = "json"

\* C14 as stated: the category is auth for status 401 or 403 or for a
\* primary code 4926 or 4925, otherwise rate_limit for 429, otherwise server
\* for 500 and above, otherwise validation.
C14_AuthCodeFirst ==
  frame.pc = "send" =>
    \A response \in Responses(frame.op) :
      BecomesApiError(response) =>
        buildAmadeusError(response).category =
          determineAmadeusCategoryCodeFirst(response.status,
                                            PrimaryCode(response))

\* C14, amended: the status decides first.  The category is auth for status
\* 401 or 403, rate_limit for 429, server for 500 and above; only for the
\* other statuses do the codes 4926 and 4925 give auth, and every other
\* error is validation.  One of the four values always results.
C14_StatusFirst ==
  frame.pc = "send" =>
    \A response \in Responses(frame.op) :
      BecomesApiError(response) =>
        LET category == buildAmadeusError(response).category
            status == response.status
            code == PrimaryCode(response)
            byStatus == status \in {401, 403, 429} \/ status >= 500
        IN /\ category \in {"auth", "rate_limit", "server", "validation"}
           /\ status \in {401, 403} => category = "auth"
           /\ status = 429 => category = "rate_limit"
           /\ (status >= 500) => category = "server"
           /\ (~byStatus /\ code \in {"4926", "4925"}) => category = "auth"
           /\ (~byStatus /\ code \notin {"4926", "4925"})
                => category = "validation"

\* The hotel leg alone ran and was ended at its first submission by a
\* provider error that disabled the provider: one of category auth.
C14_Witness ==
  /\ frame.pc = "done"
  /\ payload.amadeusFlightOffer = NoOffer
  /\ frame.op = "hotel"
  /\ frame.attempt = 1
  /\ ~frame.amadeusAvailable
  /\ result.amadeusHotelBookingError = Text("detail text")

\* A step of getAccessToken up to its await, and the one after it.
GetAccessTokenStep == frame.pc = "token" /\ frame'.pc # "token"
TokenStored == frame.pc = "exchange" /\ frame'.pc = "send"

\* The cached token is returned without a token exchange.
Reused ==
  /\ frame'.pc = "send"
  /\ frame'.bearer = tokenCache.token
  /\ tokenCache' = tokenCache

\* The expiry instant of the cached token: the instant of its exchange plus
\* expires_in.  getAccessToken stores that instant less 60 s.
ExpiryInstant(cache) == cache.expiresAt + 1

\* C15 as stated: getAccessToken returns the cached token exactly while more
\* than 60 s remain before the token's expiry instant, and exchanges
\* otherwise.
C15_ReusedUntil60sBeforeExpiry ==
  [][ GetAccessTokenStep =>
        IF tokenCache.token # 0 /\ ExpiryInstant(tokenCache) - now > 1
        THEN Reused
        ELSE frame'.pc = "exchange"
    ]_vars

\* C15, amended: the cache holds the instant of the exchange plus expires_in
\* less 60 s, and getAccessToken returns the cached token exactly while that
\* stored instant is more than 60 s away, that is while more than 120 s
\* remain before the token's expiry instant; otherwise, or with an empty
\* cache, it exchanges and stores the new token.  A returned cached token is
\* never within 60 s of its expiry.
C15_ReusedUntil120sBeforeExpiry ==
  [][ /\ GetAccessTokenStep =>
           IF tokenCache.token # 0 /\ ExpiryInstant(tokenCache) - now > 2
           THEN Reused /\ ExpiryInstant(tokenCache) - now > 1
           ELSE frame'.pc = "exchange" /\ frame'.tokNow = now
      /\ TokenStored =>
           /\ tokenCache'.token = frame'.bearer
           /\ tokenCache'.token # 0
           /\ \E expiresIn \in ExpiresInTicks :
                ExpiryInstant(tokenCache') = frame.tokNow + expiresIn
    ]_vars

\* The flight-order request is sent with a token exchanged at instant 2,
\* after the pricing call had its token.
C15_Witness ==
  /\ now = 2
  /\ frame.pc = "send"
  /\ frame.op = "order"
  /\ tokenCache.expiresAt = 5

\* A response that ends the flight leg with a provider error that is not
\* handled: it ends the request, attemptFlightBooking does not retry, and
\* the error is neither a traveler-not-priced error nor a segment sell
\* failure that starts the compatibility strategy.
FlightEndsUnhandled(response) ==
  /\ frame.op \in {"price", "order"}
  /\ BecomesApiError(response)
  /\ ~(ServerError(response) /\ frame.attempt < MAX_FLIGHT_ORDER_ATTEMPTS)
  /\ \/ frame.strategy = "compatibility"
     \/ /\ ~isTravelerNotPricedError(buildAmadeusError(response))
        /\ ~isSegmentSellFailure(buildAmadeusError(response))

\* The flight leg is marked failed and the hotel leg is skipped.
FlightFailedHotelSkipped(f) ==
  /\ f.pc = "finish"
  /\ f.status = "pending"
  /\ f.amadeusFlightOrderError # Undefined
  /\ f.flightOrderId = ABSENT
  /\ f.hotelReservationId = ABSENT
  /\ f.amadeusHotelBookingError = Undefined

\* C16: an unhandled provider error of category auth or server at the end of
\* the flight leg takes the call to its return without a hotel-booking call,
\* hotel offer id or not: status "pending", flight error set, no hotel
\* reservation id and no hotel error.
C16_AuthOrServerSkipsHotel ==
  (frame.pc = "send" /\ frame.op \in {"price", "order"}) =>
    \A response \in Responses(frame.op) :
      ( /\ FlightEndsUnhandled(response)
        /\ buildAmadeusError(response).category \in {"auth", "server"} ) =>
        FlightFailedHotelSkipped(AfterResponse(frame, response))

\* A response that ends the hotel leg in failure: it ends the submission
\* without a booking id and attemptHotelBooking does not retry.
HotelEndsFailed(response) ==
  /\ frame.op = "hotel"
  /\ ~IsResent(frame, response)
  /\ ~(ServerError(response) /\ frame.attempt < MAX_HOTEL_ORDER_ATTEMPTS)
  /\ ~(response.status = 200 /\ response.body.kind = "json"
         /\ response.body.id # ABSENT)

\* C17: an unhandled provider error of category validation or rate_limit at
\* the end of the flight leg records the flight error with status "pending",
\* leaves the provider enabled and, with a hotel offer id in the request,
\* starts the hotel leg; if the hotel leg fails too, the call goes to its
\* return with both errors set and status "pending", and so does the result.
C17_HotelStillAttempted ==
  /\ (frame.pc = "send" /\ frame.op \in {"price", "order"}
        /\ payload.amadeusHotelOffer.offerId # ABSENT) =>
       \A response \in Responses(frame.op) :
         ( /\ FlightEndsUnhandled(response)
           /\ buildAmadeusError(response).category
                \in {"validation", "rate_limit"} ) =>
           LET f == AfterResponse(frame, response)
           IN /\ f.op = "hotel" /\ f.pc = "token" /\ f.attempt = 1
              /\ f.status = "pending"
              /\ f.amadeusFlightOrderError # Undefined
              /\ f.amadeusAvailable
  /\ (frame.pc = "send" /\ frame.op = "hotel"
        /\ frame.amadeusFlightOrderError # Undefined) =>
       \A response \in Responses("hotel") :
         HotelEndsFailed(response) =>
           LET f == AfterResponse(frame, response)
           IN /\ f.pc = "finish"
              /\ f.status = "pending"
              /\ f.amadeusFlightOrderError # Undefined
              /\ f.amadeusHotelBookingError # Undefined
  /\ (result.returned /\ FlightFailed /\ HotelFailed) =>
       /\ result.status = "pending"
       /\ result.amadeusFlightOrderError # Undefined
       /\ result.amadeusHotelBookingError # Undefined

\* A 2xx hotel booking response with a JSON body.
HotelBooked(response) ==
  response.status = 200 /\ response.body.kind = "json"

\* The hotel leg succeeded with the reservation id given.
HotelSucceededWith(f, id) ==
  /\ f.pc = "finish"
  /\ f.hotelReservationId = id
  /\ f.hotelBooking # ABSENT
  /\ f.amadeusHotelBookingError = Undefined
  /\ f.status = frame.status

\* C18 as stated: every 2xx hotel booking response with a provider
\* confirmation id makes the hotel leg succeed with that id as reservation
\* id; the internal id is the reservation id only without one.
C18_ConfirmationIdSucceeds ==
  (frame.pc = "send" /\ frame.op = "hotel") =>
    \A response \in Responses("hotel") :
      HotelBooked(response) =>
        LET f == AfterResponse(frame, response)
            booking == response.body
        IN /\ booking.providerConfirmationId # ABSENT =>
                HotelSucceededWith(f, booking.providerConfirmationId)
           /\ f.hotelReservationId = booking.id =>
                booking.providerConfirmationId = ABSENT

\* C18, amended: the hotel leg succeeds on a 2xx response exactly if the
\* response carries the provider's internal id; the reservation id is then
\* the provider confirmation id if there is one and the internal id
\* otherwise.  A 2xx response without internal id fails the leg (hotel error
\* recorded, status "pending", no reservation id), provider confirmation id
\* or not.
C18_InternalIdRequired ==
  (frame.pc = "send" /\ frame.op = "hotel") =>
    \A response \in Responses("hotel") :
      HotelBooked(response) =>
        LET f == AfterResponse(frame, response)
            booking == response.body
        IN IF booking.id # ABSENT
           THEN IF booking.providerConfirmationId # ABSENT
                THEN HotelSucceededWith(f, booking.providerConfirmationId)
                ELSE HotelSucceededWith(f, booking.id)
           ELSE HotelMarkedFailed(f)

\* A booking with both ids was returned under its provider confirmation id.
C18_Witness ==
  /\ result.returned
  /\ result.amadeusHotelReservationId = "PCONF1"
  /\ result.amadeusHotelBooking # ABSENT

\* Both calls with the same payload have returned.
BothReturned == previous.returned /\ result.returned

\* C19 as stated: two calls with the same input return different
\* confirmation numbers.
C19_ConfirmationNumbersDiffer ==
  BothReturned => result.confirmationNumber # previous.confirmationNumber

\* C19, amended: the confirmation numbers of two calls with the same input
\* have the same prefix, the last segment of the itinerary id in upper
\* case, and each ends in a random token drawn by its own call; nothing
\* keeps the two tokens, and so the two numbers, from being equal.
C19_SamePrefixRandomToken ==
  /\ result.returned =>
       /\ result.confirmationNumber.prefix
            = ToUpperCase(payload.itineraryId[Len(payload.itineraryId)])
       /\ result.confirmationNumber.token \in RandomTokens
  /\ BothReturned =>
       /\ result.confirmationNumber.prefix
            = previous.confirmationNumber.prefix
       /\ previous.confirmationNumber.token \in RandomTokens

\* Two calls with the same input returned the same confirmation number.
C19_Witness ==
  /\ BothReturned
  /\ result.confirmationNumber = previous.confirmationNumber
  /\ result.confirmationNumber.prefix = "AB12"

\* The fields of a result that echo the request.
Echo(r) ==
  <<r.chargedAmount, r.flight, r.stay, r.itineraryId, r.travelers>>

\* C20: the chargedAmount, flight summary, stay summary, itinerary id and
\* traveler list of every result are those of the request, whatever the
\* provider answered.
C20_EchoesRequest ==
  result.returned => Echo(result) = Echo(payload)

\* A call whose two legs failed returned the request's fields.
C20_Witness ==
  /\ result.returned
  /\ result.amadeusFlightOrderError # Undefined
  /\ result.amadeusHotelBookingError # Undefined
  /\ result.chargedAmount = 120000
  /\ result.travelers = 2

\* The retry schedule of the booking with that id exists.
HasSchedule(d, id) == id \in DOMAIN d.retries

\* C21: after any sequence of persistBooking calls every retry schedule
\* belongs to a stored booking and a stored booking has a retry schedule
\* exactly if its stored status is PENDING; persisting a pending receipt
\* leaves the schedule of its booking with the next run 15 minutes ahead and
\* the receipt's error as last error, and persisting a confirmed receipt
\* leaves its booking without a schedule.
C21_ScheduleIffPending ==
  /\ DOMAIN db.retries \subseteq DOMAIN db.bookings
  /\ \A id \in DOMAIN db.bookings :
       HasSchedule(db, id) <=> db.bookings[id].status = "PENDING"
  /\ \A receipt \in Receipts :
       LET id == receipt.confirmationNumber
           after == persistBooking(db, receipt, now)
       IN IF receipt.status = "pending"
          THEN /\ HasSchedule(after, id)
               /\ after.retries[id].nextRunAt = now + 15
               /\ after.retries[id].lastError # Undefined
               /\ after.retries[id].lastError = lastErrorMessage(receipt)
          ELSE ~HasSchedule(after, id)

\* A booking that was stored as PENDING at instant 0 and is CONFIRMED now,
\* its schedule deleted, beside a PENDING booking whose schedule was written
\* at a later instant.
C21_Witness ==
  \E id, other \in DOMAIN db.bookings :
    /\ db.bookings[id].status = "CONFIRMED"
    /\ \E n \in DOMAIN db.events :
         /\ db.events[n].bookingId = id
         /\ db.events[n].fromStatus = "PENDING"
    /\ ~HasSchedule(db, id)
    /\ db.bookings[other].status = "PENDING"
    /\ HasSchedule(db, other)
    /\ db.retries[other].nextRunAt > 15

\* The handler is past persistBooking, which committed.
Persisted ==
  /\ route.pc \in {"notify", "respond", "responded"}
  /\ Len(route.calls) >= 1
  /\ ~route.calls[1].threw

\* The first request stored a PENDING booking and the re-attempt returned
\* "confirmed" and was stored.
ConfirmedAfterPending ==
  /\ route.reattempt
  /\ Persisted
  /\ result.status = "confirmed"
  /\ Len(db.events) >= 1
  /\ db.events[1].toStatus = "PENDING"

\* C22 as stated: once the re-attempt that returned "confirmed" is stored, no
\* retry schedule remains for a booking of the itinerary.
C22_ScheduleCleared ==
  ConfirmedAfterPending =>
    \A id \in DOMAIN db.retries :
      db.bookings[id].itineraryId # payload.itineraryId

\* C22 amended: the schedule of the earlier PENDING booking is gone exactly
\* if the re-attempt drew the confirmation number of that booking; with
\* another confirmation number the re-attempt is stored as a second booking
\* without a schedule and the earlier booking stays PENDING with its
\* schedule.
C22_ClearedOnSameNumberOnly ==
  ConfirmedAfterPending =>
    LET earlier == db.events[1].bookingId
    IN IF result.confirmationNumber = earlier
       THEN /\ ~HasSchedule(db, earlier)
            /\ db.bookings[earlier].status = "CONFIRMED"
       ELSE /\ HasSchedule(db, earlier)
            /\ db.bookings[earlier].status = "PENDING"
            /\ db.bookings[result.confirmationNumber].status = "CONFIRMED"
            /\ ~HasSchedule(db, result.confirmationNumber)

\* The re-attempt drew the earlier confirmation number and cleared the
\* schedule.
C22_Witness ==
  /\ ConfirmedAfterPending
  /\ result.confirmationNumber = db.events[1].bookingId
  /\ DOMAIN db.retries = {}

\* The collaborators the handler has called, in order.
CallNames == [n \in DOMAIN route.calls |-> route.calls[n].name]

\* C23: for a request that passed validation and whose bookingAgentConfirm
\* returned, the handler calls persistBooking once and then
\* sendBookingConfirmationEmail once, in that order and nothing else, and
\* answers with the receipt, whatever the status of the receipt and whether
\* or not persistBooking threw; before bookingAgentConfirm has returned it
\* calls neither.
C23_PersistThenNotifyThenReceipt ==
  /\ route.pc \in {"request", "confirm"} => route.calls = <<>>
  /\ route.pc = "notify" => CallNames = <<"persistBooking">>
  /\ route.pc = "respond" =>
       CallNames = <<"persistBooking", "sendBookingConfirmationEmail">>
  /\ (route.pc = "responded" /\ frame.pc = "done") =>
       /\ CallNames = <<"persistBooking", "sendBookingConfirmationEmail">>
       /\ route.response = [status |-> 200, body |-> result]
       /\ result.returned

\* A pending receipt whose persistBooking threw was mailed and returned.
C23_Witness ==
  /\ route.pc = "responded"
  /\ frame.pc = "done"
  /\ result.status = "pending"
  /\ route.calls[1].threw
  /\ route.response.body = result

\* The cache holds the token of one exchange with the expiry computed from
\* that exchange: its Date.now() plus its expires_in less 60 s.
HoldsOneExchange(cache) ==
  \E e \in requests.issued :
    /\ cache.token = e.token
    /\ cache.expiresAt = e.tokNow + (e.expiresIn - 1)

\* C24: under every interleaving of two transport requests the token cache
\* is empty (token "" and expiry 0) or holds the token of one token exchange
\* with the expiry computed from that same exchange; it never holds a token
\* with the expiry of another exchange or with expiry 0.
C24_CachePairConsistent ==
  /\ tokenCache = EmptyCache \/ HoldsOneExchange(tokenCache)
  /\ tokenCache.token # 0 => tokenCache.expiresAt # 0

\* Both requests exchanged a token at different instants, the later
\* answer overwrote the earlier one in the cache, and a 401 was retried.
C24_Witness ==
  /\ Cardinality(requests.issued) >= 2
  /\ \E e \in requests.issued :
       /\ tokenCache.token = e.token
       /\ \E o \in requests.issued : o.token < e.token /\ o.tokNow > e.tokNow
  /\ \E i \in RequestIds : requests.calls[i].fetchAttempt > 1

\* The agents of the trace, in order.
TraceAgents == [n \in DOMAIN search.trace |-> search.trace[n].agent]

\* The status of the agent's entry in the trace.
TraceStatus(agent) ==
  LET n == CHOOSE n \in DOMAIN search.trace : search.trace[n].agent = agent
  IN search.trace[n].status

\* The offers the agent returned are the ones runTravelSearch holds.
KeepsOffers(agent, offers, amadeus, mock) ==
  agent.pc = "completed" =>
    /\ offers # <<>>
    /\ IF agent.source = "mock" THEN offers = mock ELSE offers \in amadeus

\* From the start of the agents on the trace has one entry per agent; a
\* returned trace has Coordinator and LLM Parser completed and each search
\* agent completed or failed; the offers an agent returned stay in place
\* whatever happens to the other agent.
C25_TraceAndIsolation ==
  /\ search.pc \in {"parsing", "awaiting", "returned"} =>
       TraceAgents =
         <<"Coordinator", "LLM Parser", "Flight Agent", "Hotel Agent">>
  /\ search.pc = "returned" =>
       /\ TraceStatus("Coordinator") = "completed"
       /\ TraceStatus("LLM Parser") = "completed"
       /\ TraceStatus("Flight Agent") \in {"completed", "failed"}
       /\ TraceStatus("Hotel Agent") \in {"completed", "failed"}
       /\ TraceStatus("Flight Agent") = search.flightAgent.pc
       /\ TraceStatus("Hotel Agent") = search.hotelAgent.pc
       /\ search.itineraries = buildItineraries(search.flights, search.hotels)
  /\ KeepsOffers(search.flightAgent, search.flights, AmadeusFlights,
                 MockFlights)
  /\ KeepsOffers(search.hotelAgent, search.hotels, AmadeusHotels, MockHotels)

RealIffCredentials(agent) ==
  agent.pc = "completed" =>
    /\ isAmadeusConfigured => agent.source = "amadeus"
    /\ agent.source = "mock" => ~isAmadeusConfigured

\* C26: flightAgentSearch and hotelAgentSearch return real provider data
\* whenever provider credentials are present and the mock data only when
\* credentials are absent.
C26_RealDataIffCredentials ==
  /\ RealIffCredentials(search.flightAgent)
  /\ RealIffCredentials(search.hotelAgent)

\* C27: one transport request sends at most 3 HTTP calls whatever mix of
\* 401, 429 and other responses it gets: the call in flight is the first,
\* second or third of its request; a 401 or a 429 to the first or second
\* call makes the next call of the same request, counted by the one attempt
\* counter; every other response, and every response to the third call, ends
\* the request.
C27_AtMostThreeCalls ==
  /\ frame.fetchAttempt \in 0..3
  /\ frame.pc = "delay" => frame.fetchAttempt \in 1..2
  /\ frame.pc = "send" =>
       /\ frame.fetchAttempt \in 1..3
       /\ \A response \in Responses(frame.op) :
            LET after == AfterResponse(frame, response)
            IN IF response.status \in {401, 429} /\ frame.fetchAttempt < 3
               THEN /\ after.op = frame.op
                    /\ after.attempt = frame.attempt
                    /\ IF response.status = 401
                       THEN /\ after.pc = "token"
                            /\ after.fetchAttempt = frame.fetchAttempt + 1
                       ELSE /\ after.pc = "delay"
                            /\ after.fetchAttempt = frame.fetchAttempt
               ELSE /\ after.fetchAttempt \in {0, 1}
                    /\ after.resentOn = 0
                    /\ after.pc \notin {"send", "delay"}

\* The third call of a request is in flight after a 401, with the cache
\* refilled by the exchange that followed.
C27_Witness ==
  /\ frame.pc = "send"
  /\ frame.fetchAttempt = 3
  /\ frame.resentOn = 401
  /\ frame.op = "order"

\* The tokens issued to the call i in the exchange of its running attempt.
IssuedInAttempt(i) ==
  { e \in requests.issued :
      e.call = i /\ e.attempt = requests.calls[i].fetchAttempt }

\* C28: a 401 that is retried clears the token cache before the request is
\* sent again, the retry performs one new client-credentials exchange and
\* sends the request with the token that exchange issued; a token that was
\* rejected is never sent again by that request.
C28_Retried401UsesNewToken ==
  \A i \in RequestIds :
    LET call == requests.calls[i]
        rejection == [status |-> 401, retryAfter |-> Absent]
    IN /\ (call.pc = "send" /\ IsResent(call, rejection)) =>
            /\ CacheAfterResponse(tokenCache, call, rejection) = EmptyCache
            /\ EnterAmadeusFetch(
                 call, CacheAfterResponse(tokenCache, call, rejection),
                 now).pc = "exchange"
       /\ (call.pc = "exchange" /\ call.resentOn = 401) =>
            IssuedInAttempt(i) = {}
       /\ (call.pc = "send" /\ call.resentOn = 401) =>
            /\ Cardinality(IssuedInAttempt(i)) = 1
            /\ \A e \in IssuedInAttempt(i) : call.bearer = e.token
       /\ call.pc = "send" => call.bearer \notin call.rejected

\* A request whose two calls were both answered 401 has its third call in
\* flight with a third token.
C28_Witness ==
  \E i \in RequestIds :
    /\ requests.calls[i].pc = "send"
    /\ requests.calls[i].resentOn = 401
    /\ Cardinality(requests.calls[i].rejected) = 2
    /\ requests.calls[i].bearer \notin requests.calls[i].rejected

\* A response that ends the running flight attempt with a provider error
\* about unpriced travelers whose fields are strings: amadeusFetch does not
\* resend the request and attemptFlightBooking does not retry.
FinalNotPriced(response) ==
  /\ response.status # 200
  /\ response.body.kind = "json"
  /\ WellTyped(response)
  /\ ~IsResent(frame, response)
  /\ ~(ServerError(response) /\ frame.attempt < MAX_FLIGHT_ORDER_ATTEMPTS)
  /\ isTravelerNotPricedError(buildAmadeusError(response))

\* C29: a provider error of the flight leg that indicates unpriced travelers
\* (code 4926, a detail or title containing "not priced", or a pointer
\* containing "/data/travelers") is always recorded as a flight party
\* mismatch with status "pending" and the provider disabled, before the
\* segment sell retry and the generic failure message, so that no
\* compatibility pricing and no hotel call follows.
C29_NotPricedAlwaysMismatch ==
  (frame.pc = "send" /\ frame.op \in {"price", "order"}) =>
    \A response \in Responses(frame.op) :
      FinalNotPriced(response) =>
        LET f == AfterResponse(frame, response)
        IN /\ FlightMismatchRecorded(f)
           /\ ~f.amadeusAvailable
           /\ f.pc = "finish"
           /\ f.strategy = frame.strategy

\* A response that ends the hotel leg with a provider error about the number
\* of guests whose fields are strings.
FinalInvalidGuests(response) ==
  /\ response.status # 200
  /\ response.body.kind = "json"
  /\ WellTyped(response)
  /\ ~IsResent(frame, response)
  /\ ~(ServerError(response) /\ frame.attempt < MAX_HOTEL_ORDER_ATTEMPTS)
  /\ isInvalidHotelGuestError(buildAmadeusError(response))

\* The counts of a party mismatch message are in order.
CountsOrdered(message) ==
  /\ message.kind = "mismatch"
  /\ 1 <= message.supported
  /\ message.supported < message.requested

\* C30: every party mismatch built from a provider error, by the flight
\* leg's conversion of an unpriced-travelers error and by the hotel leg's
\* conversion of an invalid-guests error, has
\* 1 <= supportedCount < requestedCount, for every number of travelers >= 1,
\* pointer index, traveler-pricing count of the cached flight offer and
\* inferred hotel guest capacity.
C30_ConvertedCountsOrdered ==
  /\ (frame.pc = "send" /\ frame.op \in {"price", "order"}
        /\ frame.strategy = "default") =>
       \A response \in Responses(frame.op) :
         FinalNotPriced(response) =>
           CountsOrdered(
             AfterResponse(frame, response).amadeusFlightOrderError)
  /\ (frame.pc = "send" /\ frame.op = "hotel") =>
       \A response \in Responses("hotel") :
         FinalInvalidGuests(response) =>
           CountsOrdered(
             AfterResponse(frame, response).amadeusHotelBookingError)

\* C31: once the flight leg has ended in a traveler-party mismatch, no
\* hotel-booking call is made even when the request carries a hotel offer
\* id, and the result has no hotel reservation id and no hotel error.
C31_MismatchDisablesProvider ==
  FlightMismatchRecorded(frame) =>
    /\ frame.op # "hotel"
    /\ ~frame.amadeusAvailable
    /\ result.returned =>
         /\ result.amadeusHotelReservationId = ABSENT
         /\ result.amadeusHotelBookingError = Undefined

\* The flight leg of the frame has reached its final outcome: it was not
\* run, it has its order id, or it has its error.
FlightLegDecided(f) ==
  \/ ~(configured /\ payload.amadeusFlightOffer # NoOffer)
  \/ f.flightOrderId # ABSENT
  \/ f.amadeusFlightOrderError # Undefined

\* A pricing response with a flight offer that passes the capacity check.
PricedInFull(response) ==
  /\ response.status = 200
  /\ response.body.kind = "json"
  /\ response.body.offer # NoOffer
  /\ ~ensureFlightTravelerCapacityThrows(response.body.offer, payload.travelers)

C32_Ordered ==
  /\ (Issues("price") \/ Issues("order")) =>
       /\ configured
       /\ payload.amadeusFlightOffer # NoOffer
       /\ frame.op # "hotel"
       /\ ~FlightLegDecided(frame')
  /\ Issues("order") =>
       /\ frame.pc = "send"
       /\ frame.op = "price"
       /\ frame'.strategy = frame.strategy
       /\ frame'.attempt = frame.attempt
       /\ \E response \in Responses("price") :
            /\ PricedInFull(response)
            /\ frame' = AfterResponse(frame, response)
  /\ Issues("hotel") =>
       /\ payload.amadeusHotelOffer.offerId # ABSENT
       /\ frame'.amadeusAvailable
       /\ FlightLegDecided(frame')
       /\ frame'.attempt = 1 => frame.op # "hotel"
       /\ frame'.attempt > 1 => (frame.op = "hotel" /\ frame.pc = "wait")

\* C32: the provider calls of one bookingAgentConfirm call are ordered: a
\* pricing or flight-order call is issued only with a flight offer in the
\* request and before the hotel leg; a flight-order call is issued only by
\* the step in which the pricing call of the same attempt returned an offer
\* that passed the capacity check; the first hotel-booking call is issued
\* only once the flight leg has its final outcome, with a hotel offer id in
\* the request and the provider still enabled.
C32_CallsOrdered ==
  [][C32_Ordered]_vars

\* A hotel-booking call was issued after a flight leg that placed its order
\* under the compatibility strategy.
C32_Witness ==
  /\ frame.op = "hotel"
  /\ frame.pc = "send"
  /\ frame.flightOrderId # ABSENT
  /\ frame.strategy = "compatibility"

\* The status events of the booking with that id, oldest first.
EventsOf(d, id) ==
  LET OfBooking(e) == e.bookingId = id
  IN SelectSeq(d.events, OfBooking)

\* The events of the booking form a chain that ends in its stored status.
IsChain(d, id) ==
  LET evs == EventsOf(d, id)
  IN /\ Len(evs) >= 1
     /\ evs[1].fromStatus = ABSENT
     /\ \A i \in 2..Len(evs) :
          /\ evs[i].fromStatus = evs[i - 1].toStatus
          /\ evs[i].fromStatus # evs[i].toStatus
     /\ evs[Len(evs)].toStatus = d.bookings[id].status

\* persistBooking appends one event if the booking is new or its stored
\* status differs from the receipt's, and no event otherwise.
AppendsOnChange(d, receipt) ==
  LET id == receipt.confirmationNumber
      after == persistBooking(d, receipt, now)
      changed == \/ id \notin DOMAIN d.bookings
                 \/ d.bookings[id].status # statusValue(receipt)
  IN /\ changed => /\ Len(after.events) = Len(d.events) + 1
                   /\ SubSeq(after.events, 1, Len(d.events)) = d.events
                   /\ after.events[Len(after.events)].bookingId = id
     /\ ~changed => after.events = d.events

\* C33: persistBooking appends a status event exactly when the booking row
\* is created or its stored status differs from the new status; after any
\* sequence of persistBooking calls the events of every booking form a
\* chain: the first has no fromStatus, each later one starts from the
\* previous one's toStatus and changes it, and the last one's toStatus is the
\* booking's current status. Every event belongs to a stored booking.
C33_StatusEventsChain ==
  /\ \A receipt \in Receipts : AppendsOnChange(db, receipt)
  /\ \A id \in DOMAIN db.bookings : IsChain(db, id)
  /\ \A i \in 1..Len(db.events) : db.events[i].bookingId \in DOMAIN db.bookings

\* A booking went from pending to confirmed and back to pending: its three
\* events are stored.
C33_Witness ==
  \E id \in DOMAIN db.bookings :
    /\ Len(EventsOf(db, id)) = 3
    /\ db.bookings[id].status = "PENDING"
    /\ EventsOf(db, id)[2].toStatus = "CONFIRMED"

\* bookingAgentConfirm is over: it returned its BookingResponse or it threw.
CallOver == frame.pc \in {"done", "thrown"}

\* The counters of the retries stay within their limits: the attempt number
\* of attemptFlightBooking under either strategy and of attemptHotelBooking,
\* and the attempt number of amadeusFetch.
RetriesBounded ==
  /\ frame.attempt \in 0..3
  /\ frame.fetchAttempt \in 0..3
  /\ frame.pc = "wait" => frame.attempt < 3
  /\ frame.pc = "delay" => frame.fetchAttempt < 3

\* C34 as stated: when every provider call and every timer returns, every
\* bookingAgentConfirm call eventually returns.
C34_EventuallyReturns ==
  <>(result.returned)

\* C34, amended: when every provider call and every timer returns, every
\* bookingAgentConfirm call is eventually over, by returning its response or
\* by throwing; on the way no attempt counter of the flight leg, of the
\* hotel leg or of the transport passes 3.
C34_EventuallyOver ==
  []RetriesBounded /\ <>CallOver

\* The call returned after the third hotel submission was answered, the
\* flight leg having used the compatibility strategy.
C34_Witness ==
  /\ result.returned
  /\ frame.op = "hotel"
  /\ frame.attempt = 3
  /\ frame.strategy = "compatibility"

\* A 2xx response whose decoded payload lacks what the caller reads from it:
\* the priced flight offer, the id of the flight order, the id of the hotel
\* booking.
MissingShape(op, response) ==
  /\ response.status = 200
  /\ response.body.kind = "json"
  /\ CASE op = "price" -> response.body.offer = NoOffer
       [] op = "order" -> response.body.id = ABSENT
       [] op = "hotel" -> response.body.id = ABSENT

\* The message of the Error thrown for the missing shape.
MissingShapeMessage(op) ==
  CASE op = "price" -> Text("Amadeus pricing response missing flight offer")
    [] op = "order" -> Text("Amadeus flight order creation failed")
    [] op = "hotel" -> Text("Amadeus hotel booking failed")

\* The hotel leg starts, or the call goes to its return without a hotel
\* offer id.
HotelLegFollows(f) ==
  IF payload.amadeusHotelOffer.offerId # ABSENT
  THEN f.op = "hotel" /\ f.pc = "token" /\ f.fetchAttempt = 1 /\ f.attempt = 1
  ELSE f.pc = "finish"

\* C35: a 2xx response with a missing shape marks its leg failed with the
\* error's message and status "pending"; no further attempt of that leg is
\* made and the provider stays enabled, so after such a flight failure the
\* hotel leg is started whenever the request has a hotel offer id.
C35_MissingShapeFailsLeg ==
  frame.pc = "send" =>
    \A response \in Responses(frame.op) :
      MissingShape(frame.op, response) =>
        LET f == AfterResponse(frame, response)
        IN /\ f.status = "pending"
           /\ f.amadeusAvailable
           /\ IF frame.op = "hotel"
              THEN /\ f.amadeusHotelBookingError = MissingShapeMessage("hotel")
                   /\ f.hotelReservationId = ABSENT
                   /\ f.hotelBooking = ABSENT
                   /\ f.pc = "finish"
              ELSE /\ f.amadeusFlightOrderError = MissingShapeMessage(frame.op)
                   /\ f.flightOrderId = ABSENT
                   /\ f.flightOrder = ABSENT
                   /\ f.strategy = frame.strategy
                   /\ HotelLegFollows(f)

\* The hotel-booking call is being sent after the flight-order response of
\* the first attempt came without an id.
C35_Witness ==
  /\ frame.op = "hotel"
  /\ frame.pc = "send"
  /\ frame.amadeusFlightOrderError = MissingShapeMessage("order")
  /\ frame.amadeusAvailable
  /\ frame.strategy = "default"

\* The token endpoint answered non-2xx or without an access token.
FailedExchange(r) ==
  r.kind = "json" /\ (~r.ok \/ r.accessToken = 0)

\* The message of the Error getAccessToken throws for a failed exchange.
FailedExchangeMessage == Text("Failed to authenticate with Amadeus")

\* getAccessToken would send a token exchange now: the cache holds no token
\* that is fresh for 60 s more.
NeedsExchange ==
  ~(tokenCache.token # 0 /\ tokenCache.expiresAt > now + 1)

\* C36: a failed token exchange during the flight leg is recorded as the
\* flight error with status "pending" and without disabling the provider;
\* the token cache is left as it was; with a hotel offer id in the request
\* the hotel leg starts, and its getAccessToken sends another token exchange.
C36_FailedExchangeKeepsProvider ==
  /\ (frame.pc = "exchange" /\ frame.op \in {"price", "order"}) =>
       /\ NeedsExchange
       /\ \A r \in TokenResponses :
            FailedExchange(r) =>
              LET f == AfterTokenResponse(frame, r)
              IN /\ f.amadeusFlightOrderError = FailedExchangeMessage
                 /\ f.status = "pending"
                 /\ f.flightOrderId = ABSENT
                 /\ f.amadeusAvailable
                 /\ HotelLegFollows(f)
                 /\ CacheAfterTokenResponse(tokenCache, frame, r) = tokenCache
  /\ (/\ frame.op = "hotel" /\ frame.pc = "token"
      /\ frame.attempt = 1 /\ frame.fetchAttempt = 1
      /\ frame.amadeusFlightOrderError = FailedExchangeMessage) =>
       NeedsExchange

\* The token exchange of the hotel leg is in flight after the flight leg
\* failed on its token exchange, the clock having advanced meanwhile.
C36_Witness ==
  /\ frame.op = "hotel"
  /\ frame.pc = "exchange"
  /\ frame.amadeusFlightOrderError = FailedExchangeMessage
  /\ frame.amadeusAvailable
  /\ tokenCache.token # 0
  /\ now > 0

\* The 401 answer to a request.
Rejection == [status |-> 401, retryAfter |-> Absent]

\* C37 as stated: a 401 answer to a request sent with one token leaves the
\* token cache unchanged when the cache holds a different, newer token.
C37_Stale401KeepsNewerToken ==
  \A i \in RequestIds :
    LET call == requests.calls[i]
    IN (/\ call.pc = "send"
        /\ tokenCache.token # 0
        /\ tokenCache.token > call.bearer) =>
         CacheAfterResponse(tokenCache, call, Rejection) = tokenCache

\* C37, amended: a 401 answer to the first or second call of a request
\* clears the token cache whatever token it holds, a newer token of another
\* request included; only the 401 answer to the third call, which is not
\* retried, leaves the cache unchanged.
C37_Retried401ClearsAnyToken ==
  \A i \in RequestIds :
    LET call == requests.calls[i]
        after == CacheAfterResponse(tokenCache, call, Rejection)
    IN call.pc = "send" =>
         IF call.fetchAttempt < MAX_AMADEUS_RETRY_ATTEMPTS
         THEN after = EmptyCache
         ELSE after = tokenCache

\* The request j sends the token of its own exchange while the cache is
\* empty: the request i, answered 401 for older tokens only, cleared the
\* cache after that exchange and is exchanging again.
C37_Witness ==
  \E i, j \in RequestIds :
    \E e \in requests.issued :
      /\ i # j
      /\ e.call = j
      /\ e.attempt = requests.calls[j].fetchAttempt
      /\ requests.calls[j].pc = "send"
      /\ requests.calls[j].bearer = e.token
      /\ tokenCache = EmptyCache
      /\ requests.calls[i].pc = "exchange"
      /\ requests.calls[i].resentOn = 401
      /\ requests.calls[i].rejected # {}
      /\ \A t \in requests.calls[i].rejected : t < e.token

\* C38: in every returned BookingResponse neither leg has both its provider
\* id and its error, each provider payload is there exactly when its id is,
\* and the status is "pending" exactly when at least one of the two error
\* fields is set, "confirmed" otherwise.
C38_ResultFieldsConsistent ==
  result.returned =>
    /\ ~(/\ result.amadeusFlightOrderId # ABSENT
         /\ result.amadeusFlightOrderError # Undefined)
    /\ ~(/\ result.amadeusHotelReservationId # ABSENT
         /\ result.amadeusHotelBookingError # Undefined)
    /\ result.amadeusFlightOrder # ABSENT <=>
         result.amadeusFlightOrderId # ABSENT
    /\ result.amadeusHotelBooking # ABSENT <=>
         result.amadeusHotelReservationId # ABSENT
    /\ result.status \in {"confirmed", "pending"}
    /\ result.status = "pending" <=>
         \/ result.amadeusFlightOrderError # Undefined
         \/ result.amadeusHotelBookingError # Undefined

\* A returned call whose flight leg placed its order and whose hotel leg
\* failed on the number of guests.
C38_Witness ==
  /\ result.returned
  /\ result.amadeusFlightOrderId # ABSENT
  /\ result.amadeusFlightOrder # ABSENT
  /\ result.amadeusHotelBookingError.kind = "mismatch"
  /\ result.amadeusHotelReservationId = ABSENT
  /\ result.status = "pending"

\* C39: whatever sequence of persistBooking calls ran, every stored retry
\* schedule has the attempt counter 0, also a schedule that was kept over
\* several pending outcomes or deleted on confirmation and created again;
\* and no persistBooking call changes the counter of a schedule it keeps.
C39_AttemptsStayZero ==
  /\ \A id \in DOMAIN db.retries : db.retries[id].attempts = 0
  /\ \A receipt \in Receipts :
       LET after == persistBooking(db, receipt, now)
       IN \A id \in DOMAIN after.retries :
            after.retries[id].attempts =
              IF id \in DOMAIN db.retries
              THEN db.retries[id].attempts ELSE 0

\* The schedule of a booking that went from pending to confirmed and back
\* to pending exists again, written at a later instant.
C39_Witness ==
  \E id \in DOMAIN db.retries :
    /\ Len(EventsOf(db, id)) = 3
    /\ db.retries[id].attempts = 0
    /\ db.retries[id].nextRunAt > nextRunAt(0)

\* The submit i is stale: a later submit was made or reset() was called
\* since it started.
Stale(i) ==
  i < Len(store.submits) \/ store.submits[i].afterReset

\* What the user sees of the store.
Shown(st) ==
  [phase |-> st.phase, itineraries |-> st.itineraries, trace |-> st.trace,
   error |-> st.error]

\* The results in the store are those of the store's query.
ShowsLatestQuery ==
  store.phase = "results" =>
    /\ \A k \in DOMAIN store.itineraries :
         store.itineraries[k].query = store.query
    /\ \A k \in DOMAIN store.trace : store.trace[k].query = store.query

\* A step that ends a stale submit leaves what the store shows as it is.
StaleResponseIgnored ==
  \A i \in DOMAIN store.submits :
    (/\ Stale(i)
     /\ store.submits[i].pc # "done"
     /\ store'.submits[i].pc = "done") =>
       Shown(store') = Shown(store)

\* C40: the itineraries and the trace of the search store are always those
\* of the most recently submitted query, the store's query field; the
\* response of a submit that a later submit has overtaken, or that arrives
\* after reset(), never changes the phase, the itineraries, the trace or the
\* error of the store.
C40_StoreFollowsLatestSubmit ==
  []ShowsLatestQuery /\ [][StaleResponseIgnored]_vars

====
